---- MODULE Spec2Model ----
(***************************************************************************)
(* Decision engine of the "decisions" Shopify app: decision runs, the      *)
(* decision lifecycle, outcome evaluation, the COGS store and the profit   *)
(* rules.  Money is in pence (1/100 of a currency unit) where the rules    *)
(* compute with it; impacts of the lifecycle are whole currency units per  *)
(* month; time is in days.                                                 *)
(***************************************************************************)
EXTENDS Integers, Sequences, FiniteSets, TLC

VARIABLES
    shop,          \* the Shop row: minImpactThreshold, lastOrderCount, lastAnalyzedAt
    runs,          \* the DecisionRun table, a run's id is its index
    decisions,     \* the Decision table, a decision's id is its index
    outcomes,      \* the DecisionOutcome table (rows in creation order)
    now,           \* the wall clock, in days
    rulesInvoked,  \* the detection rules the last generateDecisions call started
    cogs,          \* the COGS table: variantId -> Null or Some([costGbp, source]), in pence
    orders,        \* the orders handed to the detection rules
    detected,      \* what the cost-dependent rules returned for orders, per rule
    profits,       \* what the profit calculations returned for orders
    calls,         \* the last call of a function: its arguments and result
    requests,      \* the refresh requests in progress: where each one is in its handler
    clicks,        \* how many Done / Ignore forms the merchant has posted
    cache,         \* the DataCache rows of the shop: cacheKey -> Null or Some([dataJson, expiresAt])
    hour           \* the wall clock, in hours

vars ==
    <<shop, runs, decisions, outcomes, now, rulesInvoked, clicks, cogs, orders, detected, profits, calls,
      requests, cache, hour>>

\* The state of the decision lifecycle, and the state of costs and rules.
lifecycleVars == <<shop, runs, decisions, outcomes, now, rulesInvoked, clicks>>
costVars == <<cogs, orders, detected, profits>>
requestVars == <<requests>>
callVars == <<calls>>
cacheVars == <<cache, hour>>

----------------------------------------------------------------------------
(* Bounds of the model *)

\* Spec: runs and merchant actions at one instant.
MaxRuns == 3
MaxDecisions == 4
MaxClicks == 1
\* SpecOutcomes: a few decisions tracked over time.
TrackRuns == 2
TrackDecisions == 3
TrackClicks == 2
MaxNow == 30
\* SpecCogs: rows per CSV file and per Shopify sync
MaxItems == 2
\* SpecRules: orders per analysis
MaxOrders == 2
\* SpecConfidence: evaluated decisions on record, then runs, posts and days
HistorySize == 5
ConfidenceRuns == 2
ConfidenceClicks == 2
ConfidenceNow == 90
\* SpecCache: the last hour, and the last hour at which the cache is written
MaxHour == 27
MaxSetHour == 2
\* SpecGather
GatherRuns == 2
GatherClicks == 1
\* SpecSeasonal
SeasonRuns == 2
SeasonDecisions == 3
SeasonClicks == 1
\* SpecClassify: outcomes in a confidence bucket
MaxHistory == 10
\* SpecProfit: refunds per order
MaxRefunds == 2
\* SpecFailure, SpecOverlap: candidates per request, merchant actions
MaxCandidates == 2
FailureRuns == 2
FailureClicks == 2
OverlapRuns == 2
OverlapClicks == 1

(* Program constants *)

MIN_ORDERS_FOR_DECISIONS == 30
SYSTEM_MIN_IMPACT == 50
DEFAULT_OUTCOME_WINDOW_DAYS == 30
MIN_OUTCOME_ORDERS == 10
MIN_BEST_SELLER_UNITS == 10
AssumedShippingCost == 350
TopSellersLimit == 20
MaxActive == 3
RunWindowDays == 90
MinHistory == 5
\* getOrderData caches the orders for 24 hours
OrdersExpiryHours == 24

\* A nullable column: <<>> is null, <<x>> is the value x.
Null == <<>>
Some(x) == <<x>>

Max(a, b) == IF a >= b THEN a ELSE b

Variants == {"v1", "v2", "v3"}

\* The variants that occur in orders.
OrderVariants == {"v1", "v2"}

\* detected[rule] is Null before the rule has been applied to the orders and
\* Some(what it returned) afterwards.
NotRun == [best_seller_loss |-> Null, discount_refund_hit |-> Null]

\* The refresh requests that can be in flight for the shop.
Requests == {1, 2}

\* A request that has not arrived.
Idle ==
    [at |-> "idle", orderCount |-> 0, results |-> <<>>, minImpactThreshold |-> 0,
     runId |-> 0, ignoredDecisions |-> <<>>, created |-> 0, pending |-> {},
     before |-> <<>>, settled |-> <<>>]

\* The cache keys of a shop's DataCache rows.
CacheKeys == {"orders_last_90_days", "variant_costs"}

\* A shop with no DataCache row.
NoCache == [cacheKey \in CacheKeys |-> Null]

\* No function has been called.
NoCall == [fn |-> "", args |-> <<>>, result |-> Null]

\* profits.orders and profits.variants are Null before the calculation has run
\* and Some(result) after.
NotCalculated == [orders |-> Null, variants |-> Null]

RuleTypes == <<"best_seller_loss", "free_shipping_trap", "discount_refund_hit">>

\* The impacts a rule can report (currency units per month).
Impacts(type) == IF type = "discount_refund_hit" THEN {60, 90} ELSE {90}

\* The scope a candidate of each type points at: a variant id, or the
\* free-shipping threshold.
ScopeOf(type) == IF type = "free_shipping_trap" THEN "50" ELSE "v1"

ZeroMetrics ==
    [netProfitPerOrder |-> 0, refundRate |-> 0, shippingLossPerOrder |-> 0, ordersCount |-> 0]

\* Outcome metrics are in hundredths (pence, hundredths of a percentage point).
BaselineOf(type) ==
    IF type = "free_shipping_trap"
    THEN ZeroMetrics
    ELSE [netProfitPerOrder |-> -100, refundRate |-> 1000,
          shippingLossPerOrder |-> 350, ordersCount |-> 12]

\* What one detection rule resolves to: null or one candidate, of one of the
\* given confidence levels and with no context attached yet.
RuleOutputsOf(type, confidences) ==
    {Null} \cup
    { Some([type |-> type, scope |-> ScopeOf(type), impact |-> i,
            confidence |-> c, outcomeBaseline |-> BaselineOf(type),
            seasonalContext |-> Null, salesPaceContext |-> Null]) :
        i \in Impacts(type), c \in confidences }

RuleOutputs(type) == RuleOutputsOf(type, {"medium"})

\* The order counts a run is called with.
OrderCounts == {MIN_ORDERS_FOR_DECISIONS - 1, MIN_ORDERS_FOR_DECISIONS}

\* The thresholds a merchant submits on the settings form.
ThresholdInputs == {30, 100}

----------------------------------------------------------------------------
(* generateDecisionKey *)

generateDecisionKey(decision) == <<decision.type, decision.scope>>

(* Array.prototype.sort((a, b) => b.impact - a.impact): stable, descending *)

RECURSIVE InsertByImpact(_, _)
InsertByImpact(x, s) ==
    IF s = <<>> THEN <<x>>
    ELSE IF Head(s).impact <= x.impact THEN <<x>> \o s
    ELSE <<Head(s)>> \o InsertByImpact(x, Tail(s))

RECURSIVE SortByImpactDesc(_)
SortByImpactDesc(s) ==
    IF s = <<>> THEN <<>>
    ELSE InsertByImpact(Head(s), SortByImpactDesc(Tail(s)))

\* [a, b, c].filter(d => d !== null)
NonNull(results) ==
    LET keep(r) == r # Null
        kept == SelectSeq(results, keep)
    IN  [i \in 1..Len(kept) |-> kept[i][1]]

EffectiveThreshold(settings) ==
    Max(settings.minImpactThreshold, SYSTEM_MIN_IMPACT)

\* A run that completes every earlier decision, whatever its status.
ClearActiveAll(ds, t) ==
    [i \in DOMAIN ds |-> [ds[i] EXCEPT !.status = "done", !.completedAt = Some(t)]]

\* A run that leaves the active decisions of earlier runs active.
ClearActiveNothing(ds, t) == ds

\* prisma.decision.updateMany({where: {status: "active"}, data: {status: "done", completedAt}})
ClearActive(ds, t) ==
    [i \in DOMAIN ds |->
        IF ds[i].status = "active"
        THEN [ds[i] EXCEPT !.status = "done", !.completedAt = Some(t)]
        ELSE ds[i]]

----------------------------------------------------------------------------
(* pickResurfacingCandidate *)

\* new Map(ignoredDecisions.filter(d => !d.resurfacedAt).map(d => [d.decisionKey, d])).get(key):
\* the last never-resurfaced row with the key, in the order the query returned.
RECURSIVE IgnoredMapGet(_, _)
IgnoredMapGet(ignoredDecisions, key) ==
    IF ignoredDecisions = <<>> THEN Null
    ELSE LET last == ignoredDecisions[Len(ignoredDecisions)]
         IN  IF last.resurfacedAt = Null /\ last.decisionKey = key
             THEN Some(last)
             ELSE IgnoredMapGet(SubSeq(ignoredDecisions, 1, Len(ignoredDecisions) - 1), key)

\* The growth test dropped: any new finding of the key resurfaces the record.
GrownEnoughAlways(newImpact, ignoredImpact) == TRUE

\* decision.impact >= ignored.impact * 1.5
GrownEnough(newImpact, ignoredImpact) == 2 * newImpact >= 3 * ignoredImpact

RECURSIVE InsertCandidate(_, _)
InsertCandidate(x, s) ==
    IF s = <<>> THEN <<x>>
    ELSE IF Head(s).newDecision.impact <= x.newDecision.impact THEN <<x>> \o s
    ELSE <<Head(s)>> \o InsertCandidate(x, Tail(s))

RECURSIVE SortCandidates(_)
SortCandidates(s) ==
    IF s = <<>> THEN <<>>
    ELSE InsertCandidate(Head(s), SortCandidates(Tail(s)))

RECURSIVE ResurfacingCandidates(_, _)
ResurfacingCandidates(newDecisions, ignoredDecisions) ==
    IF newDecisions = <<>> THEN <<>>
    ELSE LET decision == Head(newDecisions)
             ignored == IgnoredMapGet(ignoredDecisions, decision.decisionKey)
             rest == ResurfacingCandidates(Tail(newDecisions), ignoredDecisions)
         IN  IF ignored # Null /\ GrownEnough(decision.impact, ignored[1].impact)
             THEN <<[newDecision |-> decision,
                     ignoredDecision |-> [id |-> ignored[1].id,
                                          decisionKey |-> ignored[1].decisionKey,
                                          impact |-> ignored[1].impact]]>> \o rest
             ELSE rest

pickResurfacingCandidate(newDecisions, ignoredDecisions) ==
    LET candidates == ResurfacingCandidates(newDecisions, ignoredDecisions)
    IN  IF candidates = <<>> THEN Null ELSE Some(SortCandidates(candidates)[1])

----------------------------------------------------------------------------
(* generateDecisions: the steps after the order-count check *)

\* Objects are told apart by reference: <<"orig", i>> is the i-th element of
\* sortedDecisions, <<"copy", i>> the spread copy {...decision, decisionKey} of it
\* that is handed to pickResurfacingCandidate.
Orig(i) == <<"orig", i>>
Copy(i) == <<"copy", i>>

\* sortedDecisions.map((decision, index) => ({...decision, decisionKey: decisionKeys[index]}))
WithKeys(sortedDecisions) ==
    [i \in 1..Len(sortedDecisions) |->
        [ref |-> Copy(i),
         decisionKey |-> generateDecisionKey(sortedDecisions[i]),
         impact |-> sortedDecisions[i].impact]]

\* prisma.decision.findMany({where: {status: "ignored", decisionKey: {in: decisionKeys}}}):
\* the ids of the matching rows; the query states no order.
IgnoredIds(ds, decisionKeys) ==
    {i \in DOMAIN ds : ds[i].status = "ignored" /\ ds[i].decisionKey \in decisionKeys}

Orderings(S) ==
    {f \in [1..Cardinality(S) -> S] : \A a, b \in 1..Cardinality(S) : a # b => f[a] # f[b]}

IgnoredRows(ds, order) ==
    [k \in 1..Len(order) |->
        [id |-> order[k], decisionKey |-> ds[order[k]].decisionKey,
         impact |-> ds[order[k]].impact, resurfacedAt |-> ds[order[k]].resurfacedAt]]

\* resurfacingCandidate && resurfacingCandidate.newDecision.impact >= minImpactThreshold
Resurfaces(resurfacingCandidate, minImpactThreshold) ==
    /\ resurfacingCandidate # Null
    /\ resurfacingCandidate[1].newDecision.impact >= minImpactThreshold

\* The surfaced list without the threshold filter.
SurfacedDecisionsUnfiltered(sortedDecisions, minImpactThreshold) ==
    [j \in 1..Len(sortedDecisions) |-> Orig(j)]

\* sortedDecisions.filter(d => d.impact >= minImpactThreshold), as references
SurfacedDecisions(sortedDecisions, minImpactThreshold) ==
    LET idx == [i \in 1..Len(sortedDecisions) |-> i]
        keep(i) == sortedDecisions[i].impact >= minImpactThreshold
        kept == SelectSeq(idx, keep)
    IN  [j \in 1..Len(kept) |-> Orig(kept[j])]

\* surfacedDecisions.slice(0, 3)
TopSlice(surfacedDecisions) ==
    SubSeq(surfacedDecisions, 1,
           IF Len(surfacedDecisions) < MaxActive THEN Len(surfacedDecisions) ELSE MaxActive)

Includes(seq, x) == \E j \in 1..Len(seq) : seq[j] = x

\* The force-include of the resurfacing candidate into activeDecisions.
ForceInclude(activeDecisions, resurfacingCandidate, minImpactThreshold) ==
    IF Resurfaces(resurfacingCandidate, minImpactThreshold)
    THEN LET newDecision == resurfacingCandidate[1].newDecision.ref
             alreadyActive == Includes(activeDecisions, newDecision)
         IN  IF alreadyActive THEN activeDecisions
             ELSE IF Len(activeDecisions) < MaxActive
                  THEN Append(activeDecisions, newDecision)
                  ELSE [activeDecisions EXCEPT ![Len(activeDecisions)] = newDecision]
    ELSE activeDecisions

\* prisma.decision.update({where: {id: ignoredDecision.id}, data: {resurfacedAt: new Date()}})
MarkResurfaced(ds, resurfacingCandidate, minImpactThreshold, t) ==
    IF Resurfaces(resurfacingCandidate, minImpactThreshold)
    THEN [i \in DOMAIN ds |->
            IF i = resurfacingCandidate[1].ignoredDecision.id
            THEN [ds[i] EXCEPT !.resurfacedAt = Some(t)]
            ELSE ds[i]]
    ELSE ds

\* dataJson.resurfacedFromDecisionId, written through the copy's shared dataJson
ResurfacedFrom(i, resurfacingCandidate, minImpactThreshold) ==
    IF /\ Resurfaces(resurfacingCandidate, minImpactThreshold)
       /\ resurfacingCandidate[1].newDecision.ref[2] = i
    THEN Some(resurfacingCandidate[1].ignoredDecision.id)
    ELSE Null

\* The rows the persistence loop creates, one per element of sortedDecisions.
\* baseConfidence is the constant of that name in the calibration loop; the
\* code persists only confidence, and the field is kept with the row here so
\* that properties can speak of it.
CreatedRows(sortedDecisions, activeDecisions, resurfacingCandidate, minImpactThreshold, runId, t) ==
    [i \in 1..Len(sortedDecisions) |->
        LET decision == sortedDecisions[i]
            isTopThree == Includes(activeDecisions, Orig(i))
        IN  [type |-> decision.type,
             status |-> IF isTopThree THEN "active" ELSE "done",
             impact |-> decision.impact,
             confidence |-> decision.confidence,
             baseConfidence |-> decision.baseConfidence,
             outcomeBaseline |-> decision.outcomeBaseline,
             seasonalContext |-> decision.seasonalContext,
             salesPaceContext |-> decision.salesPaceContext,
             resurfacedFromDecisionId |->
                 ResurfacedFrom(i, resurfacingCandidate, minImpactThreshold),
             runId |-> runId,
             decisionKey |-> generateDecisionKey(decision),
             resurfacedAt |-> Null,
             completedAt |-> IF isTopThree THEN Null ELSE Some(t),
             ignoredAt |-> Null]]

\* The value of a reference, for the returned decisions list.
Deref(sortedDecisions, ref) ==
    [type |-> sortedDecisions[ref[2]].type,
     decisionKey |-> generateDecisionKey(sortedDecisions[ref[2]]),
     impact |-> sortedDecisions[ref[2]].impact,
     confidence |-> sortedDecisions[ref[2]].confidence]

----------------------------------------------------------------------------
(* evaluateOutcomeStatus, in hundredths *)

CountTrue(flags) == Cardinality({i \in DOMAIN flags : flags[i]})

\* evaluateOutcomeStatus with a single flag enough for either verdict.
evaluateOutcomeStatusOneFlag(baseline, post) ==
    LET profitDelta == post.netProfitPerOrder - baseline.netProfitPerOrder
        refundDelta == baseline.refundRate - post.refundRate
        shippingDelta == baseline.shippingLossPerOrder - post.shippingLossPerOrder
        improvements == CountTrue(<<profitDelta >= 50, refundDelta >= 200, shippingDelta >= 50>>)
        worsenings == CountTrue(<<profitDelta <= -50, refundDelta <= -200, shippingDelta <= -50>>)
    IN  IF improvements >= 1 THEN "improved"
        ELSE IF worsenings >= 1 THEN "worsened"
        ELSE "no_change"

evaluateOutcomeStatus(baseline, post) ==
    LET profitDelta == post.netProfitPerOrder - baseline.netProfitPerOrder
        refundDelta == baseline.refundRate - post.refundRate
        shippingDelta == baseline.shippingLossPerOrder - post.shippingLossPerOrder
        profitImproved == profitDelta >= 50
        profitWorsened == profitDelta <= -50
        refundImproved == refundDelta >= 200
        refundWorsened == refundDelta <= -200
        shippingImproved == shippingDelta >= 50
        shippingWorsened == shippingDelta <= -50
        improvements == CountTrue(<<profitImproved, refundImproved, shippingImproved>>)
        worsenings == CountTrue(<<profitWorsened, refundWorsened, shippingWorsened>>)
    IN  IF improvements >= 2 THEN "improved"
        ELSE IF worsenings >= 2 THEN "worsened"
        ELSE "no_change"

----------------------------------------------------------------------------
(* calibrateConfidence *)

ConfidenceLevels == {"low", "medium", "high"}

\* history.successRate >= 0.7 and <= 0.3, successRate being improved / total
SuccessRateAtLeast70(history) == 10 * history.improved >= 7 * history.total

SuccessRateAtMost30(history) == 10 * history.improved <= 3 * history.total

\* The fields of the result that calibrateConfidence sets from the history.
WithHistory(confidence, history) ==
    [confidence |-> confidence,
     successRate |-> Some([num |-> history[1].improved, den |-> history[1].total]),
     total |-> Some(history[1].total)]

\* A calibration that also demotes high confidence on a poor record.
calibrateConfidenceDemotesHigh(baseConfidence, history) ==
    IF history = Null \/ history[1].total < MinHistory
    THEN [confidence |-> baseConfidence, successRate |-> Null, total |-> Null]
    ELSE IF SuccessRateAtLeast70(history[1])
         THEN WithHistory(IF baseConfidence = "low" THEN "medium" ELSE "high", history)
         ELSE IF SuccessRateAtMost30(history[1])
              THEN WithHistory(IF baseConfidence = "high" THEN "medium" ELSE "low", history)
              ELSE WithHistory(baseConfidence, history)

\* calibrateConfidence(baseConfidence, history?): history is Null when the map
\* has no entry for the bucket.
calibrateConfidence(baseConfidence, history) ==
    IF history = Null \/ history[1].total < MinHistory
    THEN [confidence |-> baseConfidence, successRate |-> Null, total |-> Null]
    ELSE IF baseConfidence = "high"
         THEN WithHistory("high", history)
         ELSE IF baseConfidence = "medium"
              THEN IF SuccessRateAtLeast70(history[1]) THEN WithHistory("high", history)
                   ELSE IF SuccessRateAtMost30(history[1]) THEN WithHistory("low", history)
                   ELSE WithHistory("medium", history)
              ELSE IF SuccessRateAtLeast70(history[1]) THEN WithHistory("medium", history)
                   ELSE WithHistory("low", history)

\* What computeOutcomeMetrics can find in the window's orders: nothing in scope
\* (null), too few orders, or enough orders with better or worse figures.
PostMetricsChoices ==
    { Null,
      Some([netProfitPerOrder |-> 100, refundRate |-> 0,
            shippingLossPerOrder |-> 350, ordersCount |-> MIN_OUTCOME_ORDERS - 1]),
      Some([netProfitPerOrder |-> 100, refundRate |-> 400,
            shippingLossPerOrder |-> 350, ordersCount |-> MIN_OUTCOME_ORDERS]) }

----------------------------------------------------------------------------
(* The state after construction: an installed shop with default settings *)

Init ==
    /\ shop = [minImpactThreshold |-> SYSTEM_MIN_IMPACT,
               lastOrderCount |-> Null, lastAnalyzedAt |-> Null]
    /\ runs = <<>>
    /\ decisions = <<>>
    /\ outcomes = <<>>
    /\ now = 0
    /\ rulesInvoked = {}
    /\ clicks = 0
    /\ cogs = [variantId \in Variants |-> Null]
    /\ orders = <<>>
    /\ detected = NotRun
    /\ profits = NotCalculated
    /\ calls = NoCall
    /\ cache = NoCache
    /\ hour = 0
    /\ requests = [p \in Requests |-> Idle]

\* The settings form: minImpactThreshold = Math.max(50, input)
SaveSettings(input) ==
    /\ shop' = [shop EXCEPT !.minImpactThreshold = Max(SYSTEM_MIN_IMPACT, input)]
    /\ UNCHANGED <<runs, decisions, outcomes, now, rulesInvoked, clicks>>
    /\ UNCHANGED <<costVars, requestVars, callVars, cacheVars>>

\* Time passes, one outcome window at a time.
Tick ==
    /\ now' = now + DEFAULT_OUTCOME_WINDOW_DAYS
    /\ UNCHANGED <<shop, runs, decisions, outcomes, rulesInvoked, clicks>>
    /\ UNCHANGED <<costVars, requestVars, callVars, cacheVars>>

\* The order-count check off by one: a shop with 29 orders is analysed.
InsufficientOrdersOffByOne(orderCount) == orderCount < MIN_ORDERS_FOR_DECISIONS - 1

\* orders.length < MIN_ORDERS_FOR_DECISIONS
InsufficientOrders(orderCount) == orderCount < MIN_ORDERS_FOR_DECISIONS

\* What getSeasonalContext and calculateRecentSalesPace make of the orders: a
\* shop with too little history for a seasonal message.
QuietSeason == [hasEnoughData |-> FALSE, seasonalMessage |-> Null, salesPace30Days |-> 12]

\* The context loop with a seasonal downturn halving the impact.
AttachContextDiscounting(results, context) ==
    [i \in DOMAIN results |->
        IF results[i] = Null THEN Null
        ELSE Some([results[i][1] EXCEPT
                      !.salesPaceContext = Some(context.salesPace30Days),
                      !.seasonalContext =
                          IF context.hasEnoughData /\ context.seasonalMessage # Null
                          THEN context.seasonalMessage ELSE Null,
                      !.impact =
                          IF context.hasEnoughData /\ context.seasonalMessage = Some("worse")
                          THEN results[i][1].impact \div 2 ELSE results[i][1].impact])]

\* The loop that attaches the context to every candidate:
\* seasonalContext only if hasEnoughData && seasonalMessage.
AttachContext(results, context) ==
    [i \in DOMAIN results |->
        IF results[i] = Null THEN Null
        ELSE Some([results[i][1] EXCEPT
                      !.salesPaceContext = Some(context.salesPace30Days),
                      !.seasonalContext =
                          IF context.hasEnoughData /\ context.seasonalMessage # Null
                          THEN context.seasonalMessage ELSE Null])]

\* The evaluated outcomes getConfidenceHistoryStats files under `${type}:${confidence}`,
\* the confidence being the one persisted with the decision of the outcome.
BucketOutcomes(ds, os, type, confidence) ==
    {k \in DOMAIN os :
        /\ os[k].outcomeStatus # Null
        /\ os[k].decisionId \in DOMAIN ds
        /\ ds[os[k].decisionId].type = type
        /\ ds[os[k].decisionId].confidence = confidence}

\* getConfidenceHistoryStats(shop).get(`${type}:${confidence}`)
HistoryOf(ds, os, type, confidence) ==
    LET bucket == BucketOutcomes(ds, os, type, confidence)
    IN  IF bucket = {} THEN Null
        ELSE Some([total |-> Cardinality(bucket),
                   improved |-> Cardinality({k \in bucket :
                                                os[k].outcomeStatus = Some("improved")})])

\* One pass of the calibration loop.
Calibrated(decision, ds, os) ==
    LET baseConfidence == decision.confidence
        history == HistoryOf(ds, os, decision.type, baseConfidence)
        calibration == calibrateConfidence(baseConfidence, history)
    IN  [baseConfidence |-> baseConfidence] @@
        [decision EXCEPT !.confidence = calibration.confidence]

CalibrateAll(list, ds, os) == [i \in DOMAIN list |-> Calibrated(list[i], ds, os)]

\* What generateDecisions(shop, orders) does with orders.length = orderCount, the
\* three rules resolving to results (shown with their context attached) and the
\* ignored rows read in the order `order`:
\* the Decision table it leaves and the value it returns.
RunPlan(orderCount, results, order) ==
    LET minImpactThreshold == EffectiveThreshold(shop)
        cleared == ClearActive(decisions, now)
        sortedDecisions ==
            CalibrateAll(SortByImpactDesc(NonNull(results)), decisions, outcomes)
        ignoredDecisions == IgnoredRows(cleared, order)
        resurfacingCandidate ==
            pickResurfacingCandidate(WithKeys(sortedDecisions), ignoredDecisions)
        surfacedDecisions == SurfacedDecisions(sortedDecisions, minImpactThreshold)
        activeDecisions ==
            ForceInclude(TopSlice(surfacedDecisions), resurfacingCandidate, minImpactThreshold)
    IN  IF InsufficientOrders(orderCount)
        THEN [decisions |-> cleared, rulesInvoked |-> {},
              created |-> 0, returned |-> <<>>]
        ELSE [decisions |->
                  MarkResurfaced(cleared, resurfacingCandidate, minImpactThreshold, now)
                  \o CreatedRows(sortedDecisions, activeDecisions, resurfacingCandidate,
                                 minImpactThreshold, Len(runs) + 1, now),
              rulesInvoked |-> {RuleTypes[i] : i \in DOMAIN RuleTypes},
              created |-> Len(sortedDecisions),
              returned |-> [j \in 1..Len(activeDecisions) |->
                               Deref(sortedDecisions, activeDecisions[j])]]

\* The orders in which the ignored-rows query of a run can answer.
RunOrders(results) ==
    LET sortedDecisions == SortByImpactDesc(NonNull(results))
        decisionKeys ==
            {generateDecisionKey(sortedDecisions[i]) : i \in 1..Len(sortedDecisions)}
    IN  Orderings(IgnoredIds(ClearActive(decisions, now), decisionKeys))

generateDecisions(orderCount, results, context) ==
    \E order \in RunOrders(results) :
        LET plan == RunPlan(orderCount, AttachContext(results, context), order)
        IN  /\ shop' = [shop EXCEPT !.lastOrderCount = Some(orderCount),
                                    !.lastAnalyzedAt = Some(now)]
            /\ runs' = Append(runs, [orderCount |-> orderCount,
                                     windowDays |-> RunWindowDays])
            /\ decisions' = plan.decisions
            /\ rulesInvoked' = plan.rulesInvoked
            /\ UNCHANGED <<outcomes, now, clicks>>
            /\ UNCHANGED <<costVars, requestVars, callVars, cacheVars>>

\* An upsert that always creates a row.
UpsertOutcomeAlwaysCreate(rows, decisionId, baselineMetrics) ==
    Append(rows, [decisionId |-> decisionId,
                  baselineMetrics |-> baselineMetrics,
                  postMetrics |-> Null,
                  outcomeStatus |-> Null,
                  evaluatedAt |-> Null,
                  windowDays |-> DEFAULT_OUTCOME_WINDOW_DAYS])

\* An upsert whose update branch only replaces the baseline.
UpsertOutcomeNoReset(rows, decisionId, baselineMetrics) ==
    IF \E k \in DOMAIN rows : rows[k].decisionId = decisionId
    THEN [k \in DOMAIN rows |->
            IF rows[k].decisionId = decisionId
            THEN [rows[k] EXCEPT !.baselineMetrics = baselineMetrics]
            ELSE rows[k]]
    ELSE Append(rows, [decisionId |-> decisionId,
                       baselineMetrics |-> baselineMetrics,
                       postMetrics |-> Null,
                       outcomeStatus |-> Null,
                       evaluatedAt |-> Null,
                       windowDays |-> DEFAULT_OUTCOME_WINDOW_DAYS])

\* prisma.decisionOutcome.upsert({where: {decisionId}, update: {...}, create: {...}})
UpsertOutcome(rows, decisionId, baselineMetrics) ==
    IF \E k \in DOMAIN rows : rows[k].decisionId = decisionId
    THEN [k \in DOMAIN rows |->
            IF rows[k].decisionId = decisionId
            THEN [rows[k] EXCEPT !.baselineMetrics = baselineMetrics,
                                 !.evaluatedAt = Null,
                                 !.postMetrics = Null,
                                 !.outcomeStatus = Null]
            ELSE rows[k]]
    ELSE Append(rows, [decisionId |-> decisionId,
                       baselineMetrics |-> baselineMetrics,
                       postMetrics |-> Null,
                       outcomeStatus |-> Null,
                       evaluatedAt |-> Null,
                       windowDays |-> DEFAULT_OUTCOME_WINDOW_DAYS])

\* What markDecisionDone(decisionId) throws: "" when it returns normally.
markDecisionDoneError(decisionId) ==
    IF decisionId \notin DOMAIN decisions THEN "Decision not found" ELSE ""

markDecisionDone(decisionId) ==
    /\ clicks' = clicks + 1
    /\ UNCHANGED <<costVars, requestVars, callVars, cacheVars>>
    /\ IF markDecisionDoneError(decisionId) # ""
       THEN UNCHANGED <<shop, runs, decisions, outcomes, now, rulesInvoked>>
       ELSE /\ decisions' = [decisions EXCEPT ![decisionId].status = "done",
                                              ![decisionId].completedAt = Some(now)]
            /\ outcomes' = UpsertOutcome(outcomes, decisionId,
                                         decisions[decisionId].outcomeBaseline)
            /\ UNCHANGED <<shop, runs, now, rulesInvoked>>

\* prisma.decision.update throws when the row does not exist.
markDecisionIgnored(decisionId) ==
    /\ clicks' = clicks + 1
    /\ UNCHANGED <<costVars, requestVars, callVars, cacheVars>>
    /\ IF decisionId \notin DOMAIN decisions
       THEN UNCHANGED <<shop, runs, decisions, outcomes, now, rulesInvoked>>
       ELSE /\ decisions' = [decisions EXCEPT ![decisionId].status = "ignored",
                                              ![decisionId].ignoredAt = Some(now)]
            /\ UNCHANGED <<shop, runs, outcomes, now, rulesInvoked>>

\* decision.findMany({where: {status: "done", completedAt: {not: null}}})
DoneDecisionIds(ds) ==
    {i \in DOMAIN ds : ds[i].status = "done" /\ ds[i].completedAt # Null}

\* The query without the evaluatedAt filter.
PendingOutcomesAll(rows, ids) ==
    {k \in DOMAIN rows : rows[k].decisionId \in ids}

\* decisionOutcome.findMany({where: {decisionId: {in: ids}, evaluatedAt: null}})
PendingOutcomes(rows, ids) ==
    {k \in DOMAIN rows : rows[k].decisionId \in ids /\ rows[k].evaluatedAt = Null}

\* The window test dropped: an outcome is evaluated as soon as it exists.
WindowElapsedAlways(decision, outcome, t) == TRUE

\* A window that has elapsed only once now is past its end.
WindowElapsedLate(decision, outcome, t) ==
    t > decision.completedAt[1] + outcome.windowDays

\* not (now < windowEnd), windowEnd = completedAt + windowDays
WindowElapsed(decision, outcome, t) ==
    ~(t < decision.completedAt[1] + outcome.windowDays)

\* The outcome rows the loop updates.
DueOutcomes(ds, rows, t) ==
    {k \in PendingOutcomes(rows, DoneDecisionIds(ds)) :
        WindowElapsed(ds[rows[k].decisionId], rows[k], t)}

\* An evaluation that compares whatever sample it finds with the baseline.
EvaluatedRowAnySample(row, postMetrics, t) ==
    IF postMetrics = Null
    THEN [row EXCEPT !.postMetrics = postMetrics,
                     !.outcomeStatus = Some("no_change"),
                     !.evaluatedAt = Some(t)]
    ELSE [row EXCEPT !.postMetrics = postMetrics,
                     !.outcomeStatus =
                         Some(evaluateOutcomeStatus(row.baselineMetrics, postMetrics[1])),
                     !.evaluatedAt = Some(t)]

EvaluatedRow(row, postMetrics, t) ==
    IF postMetrics = Null \/ postMetrics[1].ordersCount < MIN_OUTCOME_ORDERS
    THEN [row EXCEPT !.postMetrics = postMetrics,
                     !.outcomeStatus = Some("no_change"),
                     !.evaluatedAt = Some(t)]
    ELSE [row EXCEPT !.postMetrics = postMetrics,
                     !.outcomeStatus =
                         Some(evaluateOutcomeStatus(row.baselineMetrics, postMetrics[1])),
                     !.evaluatedAt = Some(t)]

\* The number evaluateDecisionOutcomes returns.
evaluateDecisionOutcomesUpdated == Cardinality(DueOutcomes(decisions, outcomes, now))

\* evaluateDecisionOutcomes(shop, orders); post[k] is what computeOutcomeMetrics
\* finds in the orders for outcome row k.
evaluateDecisionOutcomes ==
    \E post \in [DueOutcomes(decisions, outcomes, now) -> PostMetricsChoices] :
        /\ outcomes' = [k \in DOMAIN outcomes |->
                          IF k \in DOMAIN post THEN EvaluatedRow(outcomes[k], post[k], now)
                          ELSE outcomes[k]]
        /\ UNCHANGED <<shop, runs, decisions, now, rulesInvoked, clicks>>
        /\ UNCHANGED <<costVars, requestVars, callVars, cacheVars>>

----------------------------------------------------------------------------
(* The COGS table and its three writers *)

\* prisma.cOGS.upsert({where: {shop_variantId}, update: {costGbp, source}, create: {...}})
UpsertCOGS(table, variantId, costGbp, source) ==
    [table EXCEPT ![variantId] = Some([costGbp |-> costGbp, source |-> source])]

\* setManualCOGS(shop, variantId, costGbp)
setManualCOGS(variantId, costGbp) ==
    /\ cogs' = UpsertCOGS(cogs, variantId, costGbp, "manual")
    /\ UNCHANGED <<orders, detected, profits>>
    /\ UNCHANGED <<lifecycleVars, requestVars, callVars, cacheVars>>

\* The table after the upsert loop of bulkImportCOGS and of the costs upload
\* action has gone through items.
RECURSIVE ImportedCOGS(_, _)
ImportedCOGS(table, items) ==
    IF items = <<>> THEN table
    ELSE ImportedCOGS(UpsertCOGS(table, Head(items).variantId, Head(items).costGbp, "csv"),
                      Tail(items))

\* bulkImportCOGS(shop, items); the costs upload action writes the same rows.
bulkImportCOGS(items) ==
    /\ cogs' = ImportedCOGS(cogs, items)
    /\ UNCHANGED <<orders, detected, profits>>
    /\ UNCHANGED <<lifecycleVars, requestVars, callVars, cacheVars>>

\* !variant.cost || parseFloat(variant.cost) === 0
NoShopifyCost(variant) == variant.cost = Null \/ variant.cost[1] = 0

\* The table after the loop of syncCOGSFromShopify has gone through variantCosts.
RECURSIVE SyncedCOGS(_, _)
SyncedCOGS(table, variantCosts) ==
    IF variantCosts = <<>> THEN table
    ELSE IF NoShopifyCost(Head(variantCosts))
         THEN SyncedCOGS(table, Tail(variantCosts))
         ELSE SyncedCOGS(UpsertCOGS(table, Head(variantCosts).variantId,
                                    Head(variantCosts).cost[1], "shopify"),
                         Tail(variantCosts))

\* syncCOGSFromShopify(shop, variantCosts)
syncCOGSFromShopify(variantCosts) ==
    /\ cogs' = SyncedCOGS(cogs, variantCosts)
    /\ UNCHANGED <<orders, detected, profits>>
    /\ UNCHANGED <<lifecycleVars, requestVars, callVars, cacheVars>>

\* getVariantCOGS(shop, variantId): cogs?.costGbp ?? null
getVariantCOGS(table, variantId) ==
    IF table[variantId] = Null THEN Null ELSE Some(table[variantId][1].costGbp)

----------------------------------------------------------------------------
(* calculateVariantProfits and the two cost-dependent rules; money in pence *)

Abs(x) == IF x < 0 THEN -x ELSE x

\* refundsByLineItem.get(item.id) || {revenue: 0, units: 0}, summed over the
\* refund lines of the order that name the line item
RECURSIVE RefundLines(_)
RefundLines(refunds) ==
    IF refunds = <<>> THEN <<>>
    ELSE Head(refunds).refundLineItems \o RefundLines(Tail(refunds))

RECURSIVE RefundData(_, _)
RefundData(refundLines, lineItemId) ==
    IF refundLines = <<>> THEN [revenue |-> 0, units |-> 0]
    ELSE LET rest == RefundData(Tail(refundLines), lineItemId)
         IN  IF Head(refundLines).lineItemId = lineItemId
             THEN [revenue |-> rest.revenue + Head(refundLines).subtotal,
                   units |-> rest.units + Head(refundLines).quantity]
             ELSE rest

\* What one line item adds to the metrics of its variant.
ItemContribution(order, i) ==
    LET item == order.lineItems[i]
        itemRevenue == item.price * item.quantity
        itemDiscountedPrice == item.discountedPrice * item.quantity
        refundData == RefundData(RefundLines(order.refunds), item.id)
    IN  [variantId |-> item.variantId,
         quantity |-> item.quantity,
         itemRevenue |-> itemRevenue,
         itemDiscounts |-> itemRevenue - itemDiscountedPrice,
         refundRevenue |-> refundData.revenue,
         refundUnits |-> refundData.units,
         shipping |-> AssumedShippingCost \div Len(order.lineItems)]

\* The line items of all orders in processing order, items without a variantId
\* (null or "") skipped.
RECURSIVE Contributions(_)
Contributions(orderList) ==
    IF orderList = <<>> THEN <<>>
    ELSE LET order == Head(orderList)
             all == [i \in 1..Len(order.lineItems) |-> ItemContribution(order, i)]
             hasVariant(c) == c.variantId # ""
         IN  SelectSeq(all, hasVariant) \o Contributions(Tail(orderList))

\* The keys of the variantMetrics map, in insertion order.
RECURSIVE VariantOrder(_, _)
VariantOrder(contributions, seen) ==
    IF contributions = <<>> THEN <<>>
    ELSE IF Head(contributions).variantId \in seen
         THEN VariantOrder(Tail(contributions), seen)
         ELSE <<Head(contributions).variantId>>
              \o VariantOrder(Tail(contributions), seen \cup {Head(contributions).variantId})

RECURSIVE SumField(_, _)
SumField(contributions, field) ==
    IF contributions = <<>> THEN 0
    ELSE Head(contributions)[field] + SumField(Tail(contributions), field)

\* revenue > 0 ? (amount / revenue) * 100 : 0, kept as an exact fraction
Percent(amount, revenue) ==
    IF revenue > 0 THEN [num |-> amount * 100, den |-> revenue] ELSE [num |-> 0, den |-> 1]

\* The metrics of one variant after the accumulation loop and the final pass.
VariantMetrics(table, contributions, variantId) ==
    LET mine == SelectSeq(contributions, LAMBDA c : c.variantId = variantId)
        cost == getVariantCOGS(table, variantId)
        unitCogs == IF cost = Null THEN 0 ELSE cost[1]
        unitsSold == SumField(mine, "quantity")
        revenue == SumField(mine, "itemRevenue")
        totalCOGS == IF unitCogs > 0 THEN unitCogs * unitsSold ELSE 0
        assumedShipping == SumField(mine, "shipping")
        totalDiscounts == SumField(mine, "itemDiscounts")
        refundedRevenue == SumField(mine, "refundRevenue")
    IN  [variantId |-> variantId,
         unitsSold |-> unitsSold,
         ordersCount |-> Len(mine),
         revenue |-> revenue,
         cogs |-> unitCogs,
         totalCOGS |-> totalCOGS,
         assumedShipping |-> assumedShipping,
         totalDiscounts |-> totalDiscounts,
         refundedRevenue |-> refundedRevenue,
         refundedUnits |-> SumField(mine, "refundUnits"),
         grossProfit |-> revenue - totalCOGS,
         netProfit |-> revenue - totalCOGS - assumedShipping - totalDiscounts
                       - refundedRevenue,
         marginPercent |-> Percent(revenue - totalCOGS - assumedShipping - totalDiscounts
                                   - refundedRevenue, revenue)]

\* calculateVariantProfits(shop, orders): the values of the map, in insertion order
calculateVariantProfits(table, orderList) ==
    LET contributions == Contributions(orderList)
        keys == VariantOrder(contributions, {})
    IN  [k \in 1..Len(keys) |-> VariantMetrics(table, contributions, keys[k])]

RECURSIVE SumSeq(_)
SumSeq(amounts) == IF amounts = <<>> THEN 0 ELSE Head(amounts) + SumSeq(Tail(amounts))

\* The loop over order.lineItems: cost * quantity of the items that have a
\* variantId and a truthy cost (neither null nor 0).
OrderCOGS(table, order) ==
    SumSeq([i \in 1..Len(order.lineItems) |->
              LET item == order.lineItems[i]
                  cost == IF item.variantId # "" THEN getVariantCOGS(table, item.variantId)
                          ELSE Null
              IN  IF cost # Null /\ cost[1] # 0 THEN cost[1] * item.quantity ELSE 0])

\* The same calculation with every refund subtracted twice.
OrderProfitRefundsTwice(table, order) ==
    LET refunds == SumSeq([i \in 1..Len(order.refunds) |-> order.refunds[i].totalRefunded])
        totalCOGS == OrderCOGS(table, order)
        netProfit == order.totalPrice - totalCOGS - AssumedShippingCost
                     - order.totalDiscounts - 2 * refunds
    IN  [revenue |-> order.totalPrice, cogs |-> totalCOGS, shipping |-> AssumedShippingCost,
         discounts |-> order.totalDiscounts, refunds |-> refunds,
         grossProfit |-> order.totalPrice - totalCOGS, netProfit |-> netProfit,
         marginPercent |-> Percent(netProfit, order.totalPrice)]

\* calculateOrderProfit(shop, order, assumedShippingCost = 3.50)
calculateOrderProfit(table, order) ==
    LET revenue == order.totalPrice
        discounts == order.totalDiscounts
        refunds == SumSeq([i \in 1..Len(order.refunds) |-> order.refunds[i].totalRefunded])
        totalCOGS == OrderCOGS(table, order)
        shipping == AssumedShippingCost
        netProfit == revenue - totalCOGS - shipping - discounts - refunds
    IN  [revenue |-> revenue, cogs |-> totalCOGS, shipping |-> shipping,
         discounts |-> discounts, refunds |-> refunds,
         grossProfit |-> revenue - totalCOGS, netProfit |-> netProfit,
         marginPercent |-> Percent(netProfit, revenue)]

\* v.marginPercent < percent, marginPercent = revenue > 0 ? netProfit / revenue * 100 : 0
MarginPercentBelow(v, percent) ==
    IF v.revenue > 0 THEN v.netProfit * 100 < percent * v.revenue ELSE 0 < percent

\* v.discountRate >= percent, discountRate = revenue > 0 ? totalDiscounts / revenue * 100 : 0
DiscountRateAtLeast(v, percent) ==
    IF v.revenue > 0 THEN v.totalDiscounts * 100 >= percent * v.revenue ELSE 0 >= percent

\* v.refundRate >= percent, refundRate = revenue > 0 ? refundedRevenue / revenue * 100 : 0
RefundRateAtLeast(v, percent) ==
    IF v.revenue > 0 THEN v.refundedRevenue * 100 >= percent * v.revenue ELSE 0 >= percent

\* Array.prototype.sort, which is stable, with comparator (a, b) => key(a) - key(b);
\* keys[i] is the key of s[i].
RECURSIVE InsertByKey(_, _)
InsertByKey(x, sorted) ==
    IF sorted = <<>> THEN <<x>>
    ELSE IF Head(sorted).key <= x.key
         THEN <<Head(sorted)>> \o InsertByKey(x, Tail(sorted))
         ELSE <<x>> \o sorted

RECURSIVE SortKeyed(_)
SortKeyed(keyed) ==
    IF keyed = <<>> THEN <<>>
    ELSE InsertByKey(keyed[Len(keyed)], SortKeyed(SubSeq(keyed, 1, Len(keyed) - 1)))

StableSort(s, keys) ==
    LET sorted == SortKeyed([i \in 1..Len(s) |-> [item |-> s[i], key |-> keys[i]]])
    IN  [i \in 1..Len(s) |-> sorted[i].item]

\* getTopSellingVariants(variantMetrics, limit)
getTopSellingVariants(variantMetrics, limit) ==
    LET sorted == StableSort(variantMetrics,
                             [i \in 1..Len(variantMetrics) |-> -variantMetrics[i].unitsSold])
    IN  SubSeq(sorted, 1, IF Len(sorted) < limit THEN Len(sorted) ELSE limit)

\* detectBestSellerLoss(shop, orders, currencySymbol): Null or the candidate
detectBestSellerLoss(table, orderList) ==
    LET variantMetrics == calculateVariantProfits(table, orderList)
        topSellers == getTopSellingVariants(variantMetrics, TopSellersLimit)
        losingBestSellers ==
            SelectSeq(topSellers, LAMBDA v : v.netProfit < 0 \/ MarginPercentBelow(v, 5))
        score(v) == v.unitsSold * Abs(v.netProfit)
        worst == StableSort(losingBestSellers,
                            [i \in 1..Len(losingBestSellers) |->
                                -score(losingBestSellers[i])])[1]
    IN  IF losingBestSellers = <<>> THEN Null
        ELSE IF worst.unitsSold < MIN_BEST_SELLER_UNITS THEN Null
        ELSE Some([type |-> RuleTypes[1],
                   variantId |-> worst.variantId,
                   unitsSold |-> worst.unitsSold,
                   netProfit |-> worst.netProfit,
                   cogs |-> worst.totalCOGS,
                   confidence |-> IF worst.unitsSold >= 20 THEN "high"
                                  ELSE IF worst.unitsSold >= 10 THEN "medium" ELSE "low"])

\* detectDiscountRefundHit(shop, orders, currencySymbol): Null or the candidate
detectDiscountRefundHit(table, orderList) ==
    LET variantMetrics == calculateVariantProfits(table, orderList)
        doubleHitVariants ==
            SelectSeq(variantMetrics,
                      LAMBDA v : /\ DiscountRateAtLeast(v, 20)
                                 /\ RefundRateAtLeast(v, 15)
                                 /\ v.unitsSold >= 10
                                 /\ v.netProfit < 0)
        worst == StableSort(doubleHitVariants,
                            [i \in 1..Len(doubleHitVariants) |->
                                doubleHitVariants[i].netProfit])[1]
    IN  IF doubleHitVariants = <<>> THEN Null
        ELSE Some([type |-> RuleTypes[3],
                   variantId |-> worst.variantId,
                   unitsSold |-> worst.unitsSold,
                   netProfit |-> worst.netProfit,
                   cogs |-> worst.totalCOGS,
                   confidence |-> IF worst.unitsSold >= 20 THEN "high"
                                  ELSE IF worst.unitsSold >= 15 THEN "medium" ELSE "low"])

----------------------------------------------------------------------------
(* The refresh handler, one storage operation at a time *)

\* A request that has been answered.
Finished(answer) == [Idle EXCEPT !.at = answer]

\* The tables generateDecisions and evaluateDecisionOutcomes write.
Store == [shop |-> shop, runs |-> runs, decisions |-> decisions, outcomes |-> outcomes]

SortedOf(r) == SortByImpactDesc(NonNull(r.results))

CandidateOf(r) == pickResurfacingCandidate(WithKeys(SortedOf(r)), r.ignoredDecisions)

ActiveOf(r) ==
    ForceInclude(TopSlice(SurfacedDecisions(SortedOf(r), r.minImpactThreshold)),
                 CandidateOf(r), r.minImpactThreshold)

\* Where the handler is after the ignored rows are read: at the resurfacedAt
\* update, at the persistence loop, or past it.
AfterQuery(r) ==
    IF Resurfaces(CandidateOf(r), r.minImpactThreshold) THEN "resurface"
    ELSE IF r.created < Len(SortedOf(r)) THEN "create" ELSE "generated"

AfterResurface(r) == IF r.created < Len(SortedOf(r)) THEN "create" ELSE "generated"

\* The request arrives: the handler has the orders and reads the shop settings.
StartRefresh(p, orderCount, results, context) ==
    /\ requests[p].at \in {"idle", "done", "failed"}
    /\ requests' = [requests EXCEPT ![p] =
                       [Idle EXCEPT !.at = "stats",
                                    !.orderCount = orderCount,
                                    !.results = AttachContext(results, context),
                                    !.minImpactThreshold = EffectiveThreshold(shop),
                                    !.before = Store]]
    /\ UNCHANGED <<lifecycleVars, costVars, callVars, cacheVars>>

\* prisma.shop.update({data: {lastOrderCount, lastAnalyzedAt}})
UpdateShopStats(p) ==
    /\ requests[p].at = "stats"
    /\ shop' = [shop EXCEPT !.lastOrderCount = Some(requests[p].orderCount),
                            !.lastAnalyzedAt = Some(now)]
    /\ requests' = [requests EXCEPT ![p].at = "run"]
    /\ UNCHANGED <<runs, decisions, outcomes, now, rulesInvoked, clicks, costVars, callVars, cacheVars>>

\* prisma.decisionRun.create
CreateDecisionRun(p) ==
    /\ requests[p].at = "run"
    /\ runs' = Append(runs, [orderCount |-> requests[p].orderCount,
                             windowDays |-> RunWindowDays])
    /\ requests' = [requests EXCEPT ![p].at = "clear", ![p].runId = Len(runs) + 1]
    /\ UNCHANGED <<shop, decisions, outcomes, now, rulesInvoked, clicks, costVars, callVars, cacheVars>>

\* prisma.decision.updateMany, then the order-count check, the read of the
\* confidence history, the rules and the calibration loop
ClearOldActive(p) ==
    /\ requests[p].at = "clear"
    /\ decisions' = ClearActive(decisions, now)
    /\ IF InsufficientOrders(requests[p].orderCount)
       THEN /\ rulesInvoked' = {}
            /\ requests' = [requests EXCEPT ![p].at = "generated"]
       ELSE /\ rulesInvoked' = {RuleTypes[i] : i \in DOMAIN RuleTypes}
            /\ requests' = [requests EXCEPT
                               ![p].at = "query",
                               ![p].results =
                                   [i \in DOMAIN requests[p].results |->
                                       IF requests[p].results[i] = Null THEN Null
                                       ELSE Some(Calibrated(requests[p].results[i][1],
                                                            decisions, outcomes))]]
    /\ UNCHANGED <<shop, runs, outcomes, now, clicks, costVars, callVars, cacheVars>>

\* prisma.decision.findMany of the ignored rows, and pickResurfacingCandidate
QueryIgnored(p) ==
    /\ requests[p].at = "query"
    /\ LET sortedDecisions == SortedOf(requests[p])
           decisionKeys ==
               {generateDecisionKey(sortedDecisions[i]) : i \in 1..Len(sortedDecisions)}
       IN  \E order \in Orderings(IgnoredIds(decisions, decisionKeys)) :
              LET r == [requests[p] EXCEPT !.ignoredDecisions = IgnoredRows(decisions, order)]
              IN  requests' = [requests EXCEPT ![p] = [r EXCEPT !.at = AfterQuery(r)]]
    /\ UNCHANGED <<lifecycleVars, costVars, callVars, cacheVars>>

\* prisma.decision.update({data: {resurfacedAt}}) of the matched ignored row
UpdateResurfacedAt(p) ==
    /\ requests[p].at = "resurface"
    /\ decisions' = MarkResurfaced(decisions, CandidateOf(requests[p]),
                                   requests[p].minImpactThreshold, now)
    /\ requests' = [requests EXCEPT ![p].at = AfterResurface(requests[p])]
    /\ UNCHANGED <<shop, runs, outcomes, now, rulesInvoked, clicks, costVars, callVars, cacheVars>>

\* One prisma.decision.create of the persistence loop
CreateDecision(p) ==
    /\ requests[p].at = "create"
    /\ LET r == requests[p]
           rows == CreatedRows(SortedOf(r), ActiveOf(r), CandidateOf(r),
                               r.minImpactThreshold, r.runId, now)
       IN  /\ decisions' = Append(decisions, rows[r.created + 1])
           /\ requests' = [requests EXCEPT
                              ![p].created = r.created + 1,
                              ![p].at = IF r.created + 1 < Len(rows)
                                        THEN "create" ELSE "generated"]
    /\ UNCHANGED <<shop, runs, outcomes, now, rulesInvoked, clicks, costVars, callVars, cacheVars>>

\* evaluateDecisionOutcomes begins: the two findMany queries
QueryOutcomes(p) ==
    /\ requests[p].at = "generated"
    /\ LET due == DueOutcomes(decisions, outcomes, now)
       IN  requests' = [requests EXCEPT ![p] =
                           IF due = {} THEN Finished("done")
                           ELSE [Idle EXCEPT !.at = "update", !.pending = due,
                                             !.before = Store]]
    /\ UNCHANGED <<lifecycleVars, costVars, callVars, cacheVars>>

\* One prisma.decisionOutcome.update of the evaluation loop
UpdateOutcome(p) ==
    /\ requests[p].at = "update"
    /\ \E k \in requests[p].pending, post \in PostMetricsChoices :
          /\ outcomes' = [j \in DOMAIN outcomes |->
                            IF j = k THEN EvaluatedRow(outcomes[j], post, now)
                            ELSE outcomes[j]]
          /\ requests' = [requests EXCEPT ![p] =
                             IF requests[p].pending = {k} THEN Finished("done")
                             ELSE [requests[p] EXCEPT !.pending = requests[p].pending \ {k}]]
    /\ UNCHANGED <<shop, runs, decisions, now, rulesInvoked, clicks, costVars, callVars, cacheVars>>

\* The storage operation the request is about to make throws: the handler's
\* catch block answers 500 and nothing more is written.
StorageFails(p) ==
    /\ requests[p].at \in {"stats", "run", "clear", "query", "resurface", "create", "update"}
    /\ requests' = [requests EXCEPT ![p] = Finished("failed")]
    /\ UNCHANGED <<lifecycleVars, costVars, callVars, cacheVars>>

\* The array a gather in completion order would produce: the outputs in the
\* order in which the rules settled.
InCompletionOrder(outputs, settled) ==
    [i \in DOMAIN settled |-> outputs[settled[i]]]

\* const [bestSellerLoss, freeShippingTrap, discountRefundHit] = await
\* Promise.all([...]): the array Promise.all resolves to holds the outputs in
\* the order of its arguments, whatever the order in which the rules settled.
PromiseAll(outputs, settled) ==
    [i \in DOMAIN outputs |-> outputs[i]]

\* prisma.decision.updateMany, the order-count check and the read of the
\* confidence history; then the three rules are started together. Until
\* they have settled, requests[p].results holds what each rule will return.
ClearThenStartRules(p) ==
    /\ requests[p].at = "clear"
    /\ decisions' = ClearActive(decisions, now)
    /\ IF InsufficientOrders(requests[p].orderCount)
       THEN /\ rulesInvoked' = {}
            /\ requests' = [requests EXCEPT ![p].at = "generated"]
       ELSE /\ rulesInvoked' = {RuleTypes[i] : i \in DOMAIN RuleTypes}
            /\ requests' = [requests EXCEPT ![p].at = "rules"]
    /\ UNCHANGED <<shop, runs, outcomes, now, clicks, costVars, callVars, cacheVars>>

\* One of the three rules settles; when the last has, Promise.all resolves
\* and the handler goes on to the calibration loop.
RuleSettles(p, k) ==
    /\ requests[p].at = "rules"
    /\ \A i \in DOMAIN requests[p].settled : requests[p].settled[i] # k
    /\ LET settled == Append(requests[p].settled, k)
           gathered == PromiseAll(requests[p].results, settled)
       IN  requests' = [requests EXCEPT ![p] =
                IF Len(settled) < Len(RuleTypes)
                THEN [requests[p] EXCEPT !.settled = settled]
                ELSE [requests[p] EXCEPT
                         !.settled = settled,
                         !.at = "query",
                         !.results = [i \in DOMAIN gathered |->
                                         IF gathered[i] = Null THEN Null
                                         ELSE Some(Calibrated(gathered[i][1],
                                                              decisions, outcomes))]]]
    /\ UNCHANGED <<lifecycleVars, costVars, callVars, cacheVars>>

----------------------------------------------------------------------------
(* The data cache *)

\* A read that takes an entry as expired in the hour it expires.
ReadCacheExpiringEarly(rows, cacheKey, time) ==
    IF rows[cacheKey] = Null THEN [returned |-> Null, rows |-> rows]
    ELSE IF time >= rows[cacheKey][1].expiresAt
         THEN [returned |-> Null, rows |-> [rows EXCEPT ![cacheKey] = Null]]
         ELSE [returned |-> Some(rows[cacheKey][1].dataJson), rows |-> rows]

\* What a read of the cache finds and does: the value getCachedData returns
\* (Null, or Some(dataJson)) and the DataCache rows after it. An entry is
\* expired when new Date() > cache.expiresAt; the read deletes it.
ReadCache(rows, cacheKey, time) ==
    IF rows[cacheKey] = Null THEN [returned |-> Null, rows |-> rows]
    ELSE IF time > rows[cacheKey][1].expiresAt
         THEN [returned |-> Null, rows |-> [rows EXCEPT ![cacheKey] = Null]]
         ELSE [returned |-> Some(rows[cacheKey][1].dataJson), rows |-> rows]

\* prisma.dataCache.upsert: the row of the key is created or overwritten.
WriteCache(rows, cacheKey, data, expiryHours, time) ==
    [rows EXCEPT ![cacheKey] = Some([dataJson |-> data, expiresAt |-> time + expiryHours])]

\* getCachedData(shop, cacheKey)
getCachedData(cacheKey) ==
    LET read == ReadCache(cache, cacheKey, hour)
    IN  /\ cache' = read.rows
        /\ calls' = [fn |-> "getCachedData", args |-> <<cacheKey>>,
                     result |-> Some(read.returned)]
        /\ UNCHANGED <<hour, lifecycleVars, costVars, requestVars>>

\* setCachedData(shop, cacheKey, data, expiryHours)
setCachedData(cacheKey, data, expiryHours) ==
    /\ cache' = WriteCache(cache, cacheKey, data, expiryHours, hour)
    /\ calls' = [fn |-> "setCachedData", args |-> <<cacheKey, data, expiryHours>>,
                 result |-> Some(Null)]
    /\ UNCHANGED <<hour, lifecycleVars, costVars, requestVars>>

\* clearExpiredCache(): deleteMany where expiresAt < new Date()
clearExpiredCache ==
    /\ cache' = [cacheKey \in CacheKeys |->
                    IF cache[cacheKey] # Null /\ cache[cacheKey][1].expiresAt < hour
                    THEN Null ELSE cache[cacheKey]]
    /\ calls' = [fn |-> "clearExpiredCache", args |-> <<>>,
                 result |-> Some(Cardinality({cacheKey \in CacheKeys :
                                                 cache'[cacheKey] # cache[cacheKey]}))]
    /\ UNCHANGED <<hour, lifecycleVars, costVars, requestVars>>

\* clearShopCache(shop)
clearShopCache ==
    /\ cache' = NoCache
    /\ calls' = [fn |-> "clearShopCache", args |-> <<>>,
                 result |-> Some(Cardinality({cacheKey \in CacheKeys :
                                                 cache[cacheKey] # Null}))]
    /\ UNCHANGED <<hour, lifecycleVars, costVars, requestVars>>

\* getOrderData(shop, admin, forceRefresh), fetchOrdersLast90Days returning
\* fetched: the cached orders if the cache is read and holds them, else the
\* fetched orders, cached for 24 hours.
getOrderData(forceRefresh, fetched) ==
    LET cacheKey == "orders_last_90_days"
        read == IF forceRefresh THEN [returned |-> Null, rows |-> cache]
                ELSE ReadCache(cache, cacheKey, hour)
    IN  /\ IF read.returned # Null
           THEN /\ cache' = read.rows
                /\ calls' = [fn |-> "getOrderData", args |-> <<forceRefresh, fetched>>,
                             result |-> Some(read.returned[1])]
           ELSE /\ cache' = WriteCache(read.rows, cacheKey, fetched, OrdersExpiryHours, hour)
                /\ calls' = [fn |-> "getOrderData", args |-> <<forceRefresh, fetched>>,
                             result |-> Some(fetched)]
        /\ UNCHANGED <<hour, lifecycleVars, costVars, requestVars>>

\* An hour passes.
HourPasses ==
    /\ hour' = hour + 1
    /\ UNCHANGED <<cache, lifecycleVars, costVars, requestVars, callVars>>

----------------------------------------------------------------------------
(* The specifications *)

\* The results the three rules can return to one run.
AllResults ==
    {<<b, f, d>> : b \in RuleOutputs(RuleTypes[1]), f \in RuleOutputs(RuleTypes[2]),
                   d \in RuleOutputs(RuleTypes[3])}

\* Some run the refresh action can make, within the given bounds.
SomeRunFrom(resultChoices, contexts, maxRuns, maxDecisions) ==
    \E orderCount \in OrderCounts, results \in resultChoices, context \in contexts :
       /\ Len(runs) < maxRuns
       /\ Len(decisions) + Len(NonNull(results)) <= maxDecisions
       /\ generateDecisions(orderCount, results, context)

SomeRun(maxRuns, maxDecisions) == SomeRunFrom(AllResults, {QuietSeason}, maxRuns, maxDecisions)

\* Some Done or Ignore form post, for a decision id that exists or not.
SomeDone(maxClicks) ==
    \E decisionId \in 1..(Len(decisions) + 1) :
        clicks < maxClicks /\ markDecisionDone(decisionId)

SomeIgnored(maxClicks) ==
    \E decisionId \in 1..(Len(decisions) + 1) :
        clicks < maxClicks /\ markDecisionIgnored(decisionId)

Next ==
    \/ \E input \in ThresholdInputs : SaveSettings(input)
    \/ SomeRun(MaxRuns, MaxDecisions)
    \/ SomeDone(MaxClicks)
    \/ SomeIgnored(MaxClicks)

Spec == Init /\ [][Next]_vars

NextOutcomes ==
    \/ SomeRun(TrackRuns, TrackDecisions)
    \/ SomeDone(TrackClicks)
    \/ SomeIgnored(TrackClicks)
    \/ (now + DEFAULT_OUTCOME_WINDOW_DAYS <= MaxNow /\ Tick)
    \/ evaluateDecisionOutcomes

SpecOutcomes == Init /\ [][NextOutcomes]_vars

\* The decision lifecycle with the evaluation taken whenever outcomes are due:
\* the refresh action calls evaluateDecisionOutcomes after every run, and the
\* merchant refreshes again.
SpecOutcomesFair == SpecOutcomes /\ WF_vars(evaluateDecisionOutcomes)

\* The costs a merchant types in, a CSV file carries and Shopify reports.
ManualCosts == {500, 600}
CsvItems == [variantId : Variants, costGbp : {400, 450}]
ShopifyVariantCosts == [variantId : Variants, cost : {Null, Some(0), Some(300), Some(350)}]

SeqsUpTo(S, n) == UNION {[1..k -> S] : k \in 1..n}

NextCogs ==
    \/ \E variantId \in Variants, costGbp \in ManualCosts : setManualCOGS(variantId, costGbp)
    \/ \E items \in SeqsUpTo(CsvItems, MaxItems) : bulkImportCOGS(items)
    \/ \E variantCosts \in SeqsUpTo(ShopifyVariantCosts, MaxItems) :
          syncCOGSFromShopify(variantCosts)

SpecCogs == Init /\ [][NextCogs]_vars

\* The line items, orders and order lists the rules are applied to.
\* discountedPrice is the list price or a quarter off it.
LineItemChoices ==
    {[variantId |-> variantId, price |-> price,
      discountedPrice |-> price - discount * (price \div 4), quantity |-> quantity] :
        variantId \in OrderVariants, price \in {30, 2000},
        discount \in {0, 1}, quantity \in {5, 10}}

WithIds(items) == [i \in 1..Len(items) |-> [id |-> i] @@ items[i]]

LineItemLists ==
    {<<a>> : a \in LineItemChoices}
    \cup {<<a, b>> : a \in {c \in LineItemChoices : c.variantId = "v1"},
                     b \in {c \in LineItemChoices : c.variantId = "v2"}}

\* No refund, or one refund of the whole first line item.
RefundChoices(lineItems) ==
    {<<>>,
     <<[refundLineItems |->
          <<[lineItemId |-> 1,
             subtotal |-> lineItems[1].discountedPrice * lineItems[1].quantity,
             quantity |-> lineItems[1].quantity]>>]>>}

OrderChoices ==
    UNION {{[lineItems |-> WithIds(items), refunds |-> refunds] :
               refunds \in RefundChoices(items)} : items \in LineItemLists}

CostTables ==
    {table \in [Variants -> {Null, Some([costGbp |-> 300, source |-> "shopify"])}] :
        \A variantId \in Variants \ OrderVariants : table[variantId] = Null}

InitRules ==
    /\ shop = [minImpactThreshold |-> SYSTEM_MIN_IMPACT,
               lastOrderCount |-> Null, lastAnalyzedAt |-> Null]
    /\ runs = <<>>
    /\ decisions = <<>>
    /\ outcomes = <<>>
    /\ now = 0
    /\ rulesInvoked = {}
    /\ clicks = 0
    /\ cogs \in CostTables
    /\ orders \in SeqsUpTo(OrderChoices, MaxOrders)
    /\ detected = NotRun
    /\ profits = NotCalculated
    /\ calls = NoCall
    /\ cache = NoCache
    /\ hour = 0
    /\ requests = [p \in Requests |-> Idle]

\* The refresh action applies a rule to the orders.
ApplyBestSellerLoss ==
    /\ detected.best_seller_loss = Null
    /\ detected' = [detected EXCEPT
                        !.best_seller_loss = Some(detectBestSellerLoss(cogs, orders))]
    /\ UNCHANGED <<cogs, orders, profits>>
    /\ UNCHANGED <<lifecycleVars, requestVars, callVars, cacheVars>>

ApplyDiscountRefundHit ==
    /\ detected.discount_refund_hit = Null
    /\ detected' = [detected EXCEPT
                        !.discount_refund_hit = Some(detectDiscountRefundHit(cogs, orders))]
    /\ UNCHANGED <<cogs, orders, profits>>
    /\ UNCHANGED <<lifecycleVars, requestVars, callVars, cacheVars>>

\* The orders the profit calculations are applied to: an order of one or two
\* line items, free or priced, of a variant or of none, with up to two refunds.
ProfitLineItems ==
    {[variantId |-> variantId, price |-> price,
      discountedPrice |-> price - discount * (price \div 4), quantity |-> quantity] :
        variantId \in OrderVariants \cup {""}, price \in {0, 2000},
        discount \in {0, 1}, quantity \in {1, 2}}

ProfitLineItemLists ==
    {<<a>> : a \in ProfitLineItems}
    \cup {<<a, b>> : a \in {c \in ProfitLineItems : c.variantId = "v1"},
                     b \in {c \in ProfitLineItems : c.quantity = 1}}

\* A refund of one unit of the first line item.
ProfitRefund(lineItems) ==
    [totalRefunded |-> lineItems[1].price,
     refundLineItems |-> <<[lineItemId |-> 1, subtotal |-> lineItems[1].price,
                            quantity |-> 1]>>]

ProfitOrders ==
    UNION {{[totalPrice |-> SumSeq([i \in 1..Len(items) |->
                                      items[i].price * items[i].quantity]) - totalDiscounts,
             totalDiscounts |-> totalDiscounts,
             lineItems |-> WithIds(items),
             refunds |-> [k \in 1..refundCount |-> ProfitRefund(items)]] :
               totalDiscounts \in {0, IF items[1].price > 0 THEN 500 ELSE 0},
               refundCount \in 0..MaxRefunds} : items \in ProfitLineItemLists}

InitProfit ==
    /\ shop = [minImpactThreshold |-> SYSTEM_MIN_IMPACT,
               lastOrderCount |-> Null, lastAnalyzedAt |-> Null]
    /\ runs = <<>>
    /\ decisions = <<>>
    /\ outcomes = <<>>
    /\ now = 0
    /\ rulesInvoked = {}
    /\ clicks = 0
    /\ cogs \in CostTables
    /\ orders \in {<<order>> : order \in ProfitOrders}
    /\ detected = NotRun
    /\ profits = NotCalculated
    /\ calls = NoCall
    /\ cache = NoCache
    /\ hour = 0
    /\ requests = [p \in Requests |-> Idle]

\* calculateOrderProfit is applied to every order.
ApplyOrderProfit ==
    /\ profits.orders = Null
    /\ profits' = [profits EXCEPT
                      !.orders = Some([i \in 1..Len(orders) |->
                                         calculateOrderProfit(cogs, orders[i])])]
    /\ UNCHANGED <<cogs, orders, detected>>
    /\ UNCHANGED <<lifecycleVars, requestVars, callVars, cacheVars>>

\* calculateVariantProfits is applied to the orders.
ApplyVariantProfits ==
    /\ profits.variants = Null
    /\ profits' = [profits EXCEPT !.variants = Some(calculateVariantProfits(cogs, orders))]
    /\ UNCHANGED <<cogs, orders, detected>>
    /\ UNCHANGED <<lifecycleVars, requestVars, callVars, cacheVars>>

NextProfit == ApplyOrderProfit \/ ApplyVariantProfits

SpecProfit == InitProfit /\ [][NextProfit]_vars

NextRules == ApplyBestSellerLoss \/ ApplyDiscountRefundHit

SpecRules == InitRules /\ [][NextRules]_vars

\* The calls of evaluateOutcomeStatus: each delta on, just inside and just
\* outside its two thresholds.
DeltaChoices(threshold) ==
    {-threshold - 1, -threshold, -threshold + 1, 0, threshold - 1, threshold, threshold + 1}

CallBaseline ==
    [netProfitPerOrder |-> 100, refundRate |-> 1000, shippingLossPerOrder |-> 350,
     ordersCount |-> MIN_OUTCOME_ORDERS]

OutcomeCalls ==
    {[fn |-> "evaluateOutcomeStatus",
      args |-> <<CallBaseline,
                 [netProfitPerOrder |-> CallBaseline.netProfitPerOrder + profit,
                  refundRate |-> CallBaseline.refundRate + refund,
                  shippingLossPerOrder |-> CallBaseline.shippingLossPerOrder + shipping,
                  ordersCount |-> MIN_OUTCOME_ORDERS]>>,
      result |-> Null] :
        profit \in DeltaChoices(50), refund \in DeltaChoices(200), shipping \in DeltaChoices(50)}

\* The calls of calibrateConfidence: no history, or any record of up to
\* MaxHistory outcomes.
Histories ==
    {Null} \cup UNION {{Some([total |-> total, improved |-> improved]) :
                           improved \in 0..total} : total \in 1..MaxHistory}

CalibrationCalls ==
    {[fn |-> "calibrateConfidence", args |-> <<baseConfidence, history>>, result |-> Null] :
        baseConfidence \in ConfidenceLevels, history \in Histories}

InitClassify ==
    /\ shop = [minImpactThreshold |-> SYSTEM_MIN_IMPACT,
               lastOrderCount |-> Null, lastAnalyzedAt |-> Null]
    /\ runs = <<>>
    /\ decisions = <<>>
    /\ outcomes = <<>>
    /\ now = 0
    /\ rulesInvoked = {}
    /\ clicks = 0
    /\ cogs = [variantId \in Variants |-> Null]
    /\ orders = <<>>
    /\ detected = NotRun
    /\ profits = NotCalculated
    /\ calls \in OutcomeCalls \cup CalibrationCalls
    /\ cache = NoCache
    /\ hour = 0
    /\ requests = [p \in Requests |-> Idle]

ApplyEvaluateOutcomeStatus ==
    /\ calls.fn = "evaluateOutcomeStatus"
    /\ calls.result = Null
    /\ calls' = [calls EXCEPT !.result = Some(evaluateOutcomeStatus(calls.args[1], calls.args[2]))]
    /\ UNCHANGED <<lifecycleVars, costVars, requestVars, cacheVars>>

ApplyCalibrateConfidence ==
    /\ calls.fn = "calibrateConfidence"
    /\ calls.result = Null
    /\ calls' = [calls EXCEPT !.result = Some(calibrateConfidence(calls.args[1], calls.args[2]))]
    /\ UNCHANGED <<lifecycleVars, costVars, requestVars, cacheVars>>

NextClassify == ApplyEvaluateOutcomeStatus \/ ApplyCalibrateConfidence

SpecClassify == InitClassify /\ [][NextClassify]_vars

\* The free shipping thresholds detectFreeShippingTrap tests, in the order of
\* the loop, in whole currency units.
FreeShippingThresholds == <<30, 35, 40, 45, 50, 60, 75, 100>>

\* The fewest paid orders the free shipping rule analyses.
MinShippingOrders == 30

\* The width of the band below a threshold, in whole currency units.
NearMissBand == 5

\* A candidate needs this percentage of the analysed orders in the band.
MinClusterRate == 15

\* Subtotals, like all money, are in pence.
Pence(units) == units * 100

\* The subtotals of every order, whatever its financial status.
AllSubtotals(orderList) ==
    [i \in DOMAIN orderList |-> orderList[i].subtotalPrice]

\* orderValues: the subtotals of the paid orders (sorted ascending in the
\* code; only counts are taken from it, which do not depend on the order).
PaidSubtotals(orderList) ==
    LET PaidAt(i) == orderList[i].financialStatus = "paid"
        F[i \in 0..Len(orderList)] ==
            IF i = 0 THEN <<>>
            ELSE IF PaidAt(i) THEN Append(F[i - 1], orderList[i].subtotalPrice)
                 ELSE F[i - 1]
    IN  F[Len(orderList)]

\* nearMissCount: the values within the band below the threshold.
NearMissCount(orderValues, threshold) ==
    Cardinality({i \in DOMAIN orderValues :
                    /\ orderValues[i] < Pence(threshold)
                    /\ orderValues[i] >= Pence(threshold - NearMissBand)})

\* The loop over the thresholds: bestThreshold and bestClusterCount after the
\* first k thresholds; a later threshold wins only with a strictly larger count.
BestCluster(orderValues) ==
    LET F[k \in 0..Len(FreeShippingThresholds)] ==
            IF k = 0 THEN [bestThreshold |-> Null, bestClusterCount |-> 0]
            ELSE LET nearMissCount == NearMissCount(orderValues, FreeShippingThresholds[k])
                 IN  IF nearMissCount > F[k - 1].bestClusterCount
                     THEN [bestThreshold |-> Some(FreeShippingThresholds[k]),
                           bestClusterCount |-> nearMissCount]
                     ELSE F[k - 1]
    IN  F[Len(FreeShippingThresholds)]

\* detectFreeShippingTrap(shop, orders, currencySymbol): Null or the candidate.
\* clusterRate is bestClusterCount / orderValues.length * 100, compared here
\* by cross-multiplication; the impact is the exact fraction
\* periodSavings * 30 / 90.
detectFreeShippingTrap(assumedShippingCost, orderList) ==
    LET orderValues == PaidSubtotals(orderList)
        best == BestCluster(orderValues)
        RateAtLeast(percent) ==
            best.bestClusterCount * 100 >= percent * Len(orderValues)
        periodSavings == best.bestClusterCount * assumedShippingCost
    IN  IF Len(orderValues) < MinShippingOrders THEN Null
        ELSE IF best.bestThreshold = Null \/ ~RateAtLeast(MinClusterRate) THEN Null
        ELSE Some([type |-> "free_shipping_trap",
                   impact |-> [num |-> periodSavings * 30, den |-> RunWindowDays],
                   confidence |-> IF RateAtLeast(25) THEN "high"
                                  ELSE IF RateAtLeast(18) THEN "medium" ELSE "low",
                   shipping |-> periodSavings,
                   currentThreshold |-> best.bestThreshold[1],
                   suggestedThreshold |-> best.bestThreshold[1] - NearMissBand,
                   nearMissCount |-> best.bestClusterCount,
                   totalOrders |-> Len(orderValues)])

\* n orders of one financial status and subtotal.
OrdersOf(n, financialStatus, subtotalPrice) ==
    [i \in 1..n |-> [financialStatus |-> financialStatus, subtotalPrice |-> subtotalPrice]]

\* The order lists the free shipping rule is applied to: paidTotal paid orders,
\* of which some lie in the band below 30, some in the band below 50 (on its
\* lower edge or inside it) and the rest on a threshold or far from any; and
\* some orders that are not paid, inside the band below 50.
ShippingPaidTotals == {29, 30, 40, 50}

ShippingClusterSizes == {0, 5, 6, 7, 9, 10, 13}

ShippingOrderLists ==
    {OrdersOf(below30, "paid", 2999) \o OrdersOf(below50 \div 2, "paid", 4500)
        \o OrdersOf(below50 - below50 \div 2, "paid", 4700)
        \o OrdersOf((paidTotal - below30 - below50) \div 2, "paid", 5000)
        \o OrdersOf(paidTotal - below30 - below50 - (paidTotal - below30 - below50) \div 2,
                    "paid", 9000)
        \o OrdersOf(unpaid, "pending", 4700) :
        paidTotal \in ShippingPaidTotals, below30 \in {0, 6, 10},
        below50 \in ShippingClusterSizes, unpaid \in {0, 10}}

\* The shop's assumed shipping cost: the default, or one set by the merchant.
ShippingCosts == {AssumedShippingCost, 500}

ShippingCalls ==
    {[fn |-> "detectFreeShippingTrap", args |-> <<assumedShippingCost, orderList>>,
      result |-> Null] :
        assumedShippingCost \in ShippingCosts, orderList \in ShippingOrderLists}

InitShipping ==
    /\ shop = [minImpactThreshold |-> SYSTEM_MIN_IMPACT,
               lastOrderCount |-> Null, lastAnalyzedAt |-> Null]
    /\ runs = <<>>
    /\ decisions = <<>>
    /\ outcomes = <<>>
    /\ now = 0
    /\ rulesInvoked = {}
    /\ clicks = 0
    /\ cogs = [variantId \in Variants |-> Null]
    /\ orders = <<>>
    /\ detected = NotRun
    /\ profits = NotCalculated
    /\ calls \in ShippingCalls
    /\ cache = NoCache
    /\ hour = 0
    /\ requests = [p \in Requests |-> Idle]

ApplyDetectFreeShippingTrap ==
    /\ calls.fn = "detectFreeShippingTrap"
    /\ calls.result = Null
    /\ calls' = [calls EXCEPT !.result = Some(detectFreeShippingTrap(calls.args[1], calls.args[2]))]
    /\ UNCHANGED <<lifecycleVars, costVars, requestVars, cacheVars>>

NextShipping == ApplyDetectFreeShippingTrap

SpecShipping == InitShipping /\ [][NextShipping]_vars

\* The contexts a run can be given: too little history, a week like any other,
\* a week worse or better than usual; at two sales paces.
SeasonalContexts ==
    {QuietSeason,
     [hasEnoughData |-> TRUE, seasonalMessage |-> Null, salesPace30Days |-> 12],
     [hasEnoughData |-> TRUE, seasonalMessage |-> Some("worse"), salesPace30Days |-> 12],
     [hasEnoughData |-> TRUE, seasonalMessage |-> Some("better"), salesPace30Days |-> 40]}

NextSeasonal ==
    \/ SomeRunFrom(AllResults, SeasonalContexts, SeasonRuns, SeasonDecisions)
    \/ SomeDone(SeasonClicks)
    \/ SomeIgnored(SeasonClicks)

SpecSeasonal == Init /\ [][NextSeasonal]_vars

\* A shop with a record: HistorySize refreshes found the same best-seller loss
\* at the same confidence, the merchant marked each done before the next
\* refresh, and after the outcome window an evaluation found the first
\* `improved` of them improved and the rest unchanged.
HistoryCandidate(confidence) ==
    [type |-> RuleTypes[1], scope |-> ScopeOf(RuleTypes[1]), impact |-> 90,
     confidence |-> confidence, baseConfidence |-> confidence,
     outcomeBaseline |-> BaselineOf(RuleTypes[1]),
     seasonalContext |-> Null, salesPaceContext |-> Some(QuietSeason.salesPace30Days)]

HistoryDecisions(confidence) ==
    [i \in 1..HistorySize |->
        [CreatedRows(<<HistoryCandidate(confidence)>>, <<Orig(1)>>, Null,
                     SYSTEM_MIN_IMPACT, i, 0)[1]
            EXCEPT !.status = "done", !.completedAt = Some(0)]]

ImprovedPost ==
    Some([netProfitPerOrder |-> 100, refundRate |-> 400,
          shippingLossPerOrder |-> 350, ordersCount |-> MIN_OUTCOME_ORDERS])

HistoryOutcomes(confidence, improved) ==
    [i \in 1..HistorySize |->
        EvaluatedRow(UpsertOutcome(<<>>, i, HistoryDecisions(confidence)[i].outcomeBaseline)[1],
                     IF i <= improved THEN ImprovedPost ELSE Null,
                     DEFAULT_OUTCOME_WINDOW_DAYS)]

InitConfidence ==
    \E confidence \in {"low", "medium"}, improved \in {1, HistorySize - 1} :
       /\ shop = [minImpactThreshold |-> SYSTEM_MIN_IMPACT,
                  lastOrderCount |-> Some(MIN_ORDERS_FOR_DECISIONS),
                  lastAnalyzedAt |-> Some(0)]
       /\ runs = [i \in 1..HistorySize |->
                    [orderCount |-> MIN_ORDERS_FOR_DECISIONS, windowDays |-> RunWindowDays]]
       /\ decisions = HistoryDecisions(confidence)
       /\ outcomes = HistoryOutcomes(confidence, improved)
       /\ now = DEFAULT_OUTCOME_WINDOW_DAYS
       /\ rulesInvoked = {RuleTypes[i] : i \in DOMAIN RuleTypes}
       /\ clicks = HistorySize
       /\ cogs = [variantId \in Variants |-> Null]
       /\ orders = <<>>
       /\ detected = NotRun
       /\ profits = NotCalculated
       /\ calls = NoCall
       /\ cache = NoCache
       /\ hour = 0
       /\ requests = [p \in Requests |-> Idle]

\* The refreshes that follow find the best-seller loss again, or nothing.
ConfidenceResults ==
    {<<found, Null, Null>> : found \in RuleOutputsOf(RuleTypes[1], {"low", "medium"})}

NextConfidence ==
    \/ SomeRunFrom(ConfidenceResults, {QuietSeason},
                   HistorySize + ConfidenceRuns, HistorySize + ConfidenceRuns)
    \/ SomeDone(HistorySize + ConfidenceClicks)
    \/ (now + DEFAULT_OUTCOME_WINDOW_DAYS <= ConfidenceNow /\ Tick)
    \/ evaluateDecisionOutcomes

SpecConfidence == InitConfidence /\ [][NextConfidence]_vars

\* No request is inside its handler.
Quiet == \A p \in Requests : requests[p].at \in {"idle", "done", "failed"}

InProgress(p) == requests[p].at \notin {"idle", "done", "failed"}

\* The inputs of a refresh request.
RequestResults == {results \in AllResults : Len(NonNull(results)) <= MaxCandidates}

\* Requests served one at a time, any storage operation of which may throw.
NextFailure ==
    \/ \E p \in Requests, orderCount \in OrderCounts, results \in RequestResults :
          Quiet /\ Len(runs) < FailureRuns /\ StartRefresh(p, orderCount, results, QuietSeason)
    \/ \E p \in Requests : UpdateShopStats(p)
    \/ \E p \in Requests : CreateDecisionRun(p)
    \/ \E p \in Requests : ClearOldActive(p)
    \/ \E p \in Requests : QueryIgnored(p)
    \/ \E p \in Requests : UpdateResurfacedAt(p)
    \/ \E p \in Requests : CreateDecision(p)
    \/ \E p \in Requests : QueryOutcomes(p)
    \/ \E p \in Requests : UpdateOutcome(p)
    \/ \E p \in Requests : StorageFails(p)
    \/ (Quiet /\ SomeDone(FailureClicks))
    \/ (Quiet /\ SomeIgnored(FailureClicks))
    \/ (Quiet /\ now + DEFAULT_OUTCOME_WINDOW_DAYS <= MaxNow /\ Tick)

SpecFailure == Init /\ [][NextFailure]_vars

\* The runs created or about to be.
Started == Len(runs) + Cardinality({p \in Requests : requests[p].at \in {"stats", "run"}})

\* Requests that arrive while another is being served; nothing throws.
NextOverlap ==
    \/ \E p \in Requests, orderCount \in OrderCounts, results \in RequestResults :
          Started < OverlapRuns /\ StartRefresh(p, orderCount, results, QuietSeason)
    \/ \E p \in Requests : UpdateShopStats(p)
    \/ \E p \in Requests : CreateDecisionRun(p)
    \/ \E p \in Requests : ClearOldActive(p)
    \/ \E p \in Requests : QueryIgnored(p)
    \/ \E p \in Requests : UpdateResurfacedAt(p)
    \/ \E p \in Requests : CreateDecision(p)
    \/ \E p \in Requests : QueryOutcomes(p)
    \/ (Quiet /\ SomeIgnored(OverlapClicks))

SpecOverlap == Init /\ [][NextOverlap]_vars

\* Requests served one at a time, whose three rules settle in any order.
NextGather ==
    \/ \E p \in Requests, orderCount \in OrderCounts, results \in RequestResults :
          Quiet /\ Len(runs) < GatherRuns /\ StartRefresh(p, orderCount, results, QuietSeason)
    \/ \E p \in Requests : UpdateShopStats(p)
    \/ \E p \in Requests : CreateDecisionRun(p)
    \/ \E p \in Requests : ClearThenStartRules(p)
    \/ \E p \in Requests, k \in DOMAIN RuleTypes : RuleSettles(p, k)
    \/ \E p \in Requests : QueryIgnored(p)
    \/ \E p \in Requests : UpdateResurfacedAt(p)
    \/ \E p \in Requests : CreateDecision(p)
    \/ \E p \in Requests : QueryOutcomes(p)
    \/ (Quiet /\ SomeIgnored(GatherClicks))

SpecGather == Init /\ [][NextGather]_vars

\* What Shopify returns for the orders of the last 90 days, and what a
\* caller stores under a key.
FetchedOrders == {"orders as of the first fetch", "orders as of a later fetch"}

CachedValues == FetchedOrders \cup {"variant costs"}

NextCache ==
    \/ \E cacheKey \in CacheKeys : getCachedData(cacheKey)
    \/ \E cacheKey \in CacheKeys, data \in CachedValues, expiryHours \in {1, OrdersExpiryHours} :
          hour <= MaxSetHour /\ setCachedData(cacheKey, data, expiryHours)
    \/ clearExpiredCache
    \/ clearShopCache
    \/ \E forceRefresh \in BOOLEAN, fetched \in FetchedOrders :
          hour <= MaxSetHour /\ getOrderData(forceRefresh, fetched)
    \/ (hour < MaxHour /\ HourPasses)

SpecCache == Init /\ [][NextCache]_vars

----------------------------------------------------------------------------
(* Properties of decision runs (Spec) *)

\* A step that is one run of generateDecisions.
RunStep == Len(runs') = Len(runs) + 1

\* The rows a run step created.
NewIds == {j \in DOMAIN decisions' : j > Len(decisions)}

ActiveIds == {i \in DOMAIN decisions : decisions[i].status = "active"}

\* C1: every decision a run persists as active, and every decision it returns,
\* has impact >= max(shop.minImpactThreshold, 50), resurfaced ones included.
C1_ActiveClearsThreshold ==
    [][ /\ \A orderCount \in OrderCounts, results \in AllResults :
             \A order \in RunOrders(results) :
                LET returned == RunPlan(orderCount, results, order).returned
                IN  \A j \in DOMAIN returned :
                       returned[j].impact >= Max(shop.minImpactThreshold, 50)
        /\ RunStep =>
             \A j \in NewIds :
                decisions'[j].status = "active" =>
                    decisions'[j].impact >= Max(shop.minImpactThreshold, 50) ]_vars

\* A resurfaced decision is active under a merchant threshold above the floor.
C1_Witness ==
    \E i \in DOMAIN decisions :
        /\ decisions[i].status = "active"
        /\ decisions[i].resurfacedFromDecisionId # Null

\* C3: resurfacedAt of a record is set at most once (a record that has it is
\* never selected again), and only by a run that created a row with the same
\* decision key whose impact is >= 1.5 times the record's impact.
C3_ResurfacedOnce ==
    [][ \A i \in DOMAIN decisions :
          /\ decisions[i].resurfacedAt # Null =>
                /\ decisions'[i].resurfacedAt = decisions[i].resurfacedAt
                /\ \A j \in NewIds : decisions'[j].resurfacedFromDecisionId # Some(i)
          /\ (decisions[i].resurfacedAt = Null /\ decisions'[i].resurfacedAt # Null) =>
                /\ RunStep
                /\ decisions[i].status = "ignored"
                /\ \E j \in NewIds :
                      /\ decisions'[j].decisionKey = decisions[i].decisionKey
                      /\ 2 * decisions'[j].impact >= 3 * decisions[i].impact ]_vars

\* A resurfaced record met a later, large enough finding of its key and was
\* left alone.
C3_Witness ==
    \E i, j \in DOMAIN decisions :
        /\ decisions[i].status = "ignored"
        /\ decisions[i].resurfacedAt # Null
        /\ decisions[j].decisionKey = decisions[i].decisionKey
        /\ 2 * decisions[j].impact >= 3 * decisions[i].impact
        /\ decisions[j].resurfacedFromDecisionId = Null
        /\ \E h \in DOMAIN decisions :
              h < j /\ decisions[h].resurfacedFromDecisionId = Some(i)

\* The new rows of a run step that match an ignored, never-resurfaced record of
\* the same key with impact >= 1.5 times the record's, with that record.
EligiblePairs ==
    {p \in NewIds \X DOMAIN decisions :
        /\ decisions[p[2]].status = "ignored"
        /\ decisions[p[2]].resurfacedAt = Null
        /\ decisions[p[2]].decisionKey = decisions'[p[1]].decisionKey
        /\ 2 * decisions'[p[1]].impact >= 3 * decisions[p[2]].impact}

\* The eligible new rows of highest impact.
BestEligible ==
    {p \in EligiblePairs :
        \A q \in EligiblePairs : decisions'[q[1]].impact <= decisions'[p[1]].impact}

NewlyResurfaced ==
    {i \in DOMAIN decisions : decisions'[i].resurfacedAt # decisions[i].resurfacedAt}

\* C4: a run considers the eligible candidate of highest impact only; when it
\* clears the threshold it is persisted active and exactly the matched ignored
\* record gets resurfacedAt; below the threshold no ignored record is modified
\* and the candidate is not active.
C4_ResurfacedIsActive ==
    [][ RunStep =>
          IF EligiblePairs = {}
          THEN NewlyResurfaced = {}
          ELSE \E p \in BestEligible :
                  IF decisions'[p[1]].impact >= Max(shop.minImpactThreshold, 50)
                  THEN /\ decisions'[p[1]].status = "active"
                       /\ NewlyResurfaced = {p[2]}
                  ELSE /\ decisions'[p[1]].status # "active"
                       /\ NewlyResurfaced = {} ]_vars

\* C5: the shop never has more than 3 active decisions.
C5_AtMostThreeActive == Cardinality(ActiveIds) <= 3

\* Three decisions are active after a second run.
C5_Witness == Cardinality(ActiveIds) = 3 /\ Len(runs) >= 2

\* C10: a run with fewer than 30 orders starts no detection rule, creates no
\* Decision row and returns created = 0 with an empty decisions list.
C10_ShortRunCreatesNothing ==
    /\ \A r \in DOMAIN runs :
          runs[r].orderCount < 30 => \A i \in DOMAIN decisions : decisions[i].runId # r
    /\ (runs # <<>> /\ runs[Len(runs)].orderCount < 30) => rulesInvoked = {}
    /\ \A orderCount \in OrderCounts, results \in AllResults :
          \A order \in RunOrders(results) :
             orderCount < 30 =>
                /\ RunPlan(orderCount, results, order).created = 0
                /\ RunPlan(orderCount, results, order).returned = <<>>
                /\ RunPlan(orderCount, results, order).rulesInvoked = {}

\* A short run came after a run that had created decisions.
C10_Witness ==
    /\ runs # <<>>
    /\ runs[Len(runs)].orderCount < 30
    /\ decisions # <<>>
    /\ rulesInvoked = {}

----------------------------------------------------------------------------
(* Properties of outcome tracking (SpecOutcomes) *)

OutcomeFieldsKept(k) ==
    /\ outcomes'[k].evaluatedAt = outcomes[k].evaluatedAt
    /\ outcomes'[k].postMetrics = outcomes[k].postMetrics
    /\ outcomes'[k].outcomeStatus = outcomes[k].outcomeStatus

\* A step in which the merchant marks decision d done.
MarkedDone(d) ==
    /\ clicks' = clicks + 1
    /\ decisions'[d].status = "done"
    /\ decisions'[d].completedAt = Some(now)
    /\ \A e \in DOMAIN decisions : e # d => decisions'[e] = decisions[e]

ExpectedDue ==
    {k \in DOMAIN outcomes :
        /\ outcomes[k].evaluatedAt = Null
        /\ decisions[outcomes[k].decisionId].status = "done"
        /\ decisions[outcomes[k].decisionId].completedAt # Null
        /\ now >= decisions[outcomes[k].decisionId].completedAt[1] + outcomes[k].windowDays}

\* A step of evaluateDecisionOutcomes that wrote something.
EvaluateStep ==
    /\ outcomes' # outcomes
    /\ UNCHANGED <<shop, runs, decisions, now, rulesInvoked, clicks>>
    /\ UNCHANGED <<costVars, requestVars, callVars, cacheVars>>

\* C6: for an outcome of a done decision, a call of evaluateDecisionOutcomes
\* before completedAt + windowDays changes nothing; a call at or after it sets
\* evaluatedAt and outcomeStatus and counts the outcome in `updated`; an
\* evaluated outcome is left unchanged and is not counted again.
C6_EvaluatedOnceAfterWindow ==
    [][ /\ evaluateDecisionOutcomesUpdated = Cardinality(ExpectedDue)
        /\ EvaluateStep =>
             \A k \in DOMAIN outcomes :
                IF k \in ExpectedDue
                THEN /\ outcomes'[k].evaluatedAt = Some(now)
                     /\ outcomes'[k].outcomeStatus # Null
                ELSE outcomes'[k] = outcomes[k] ]_vars

\* One outcome has been evaluated while another is still inside its window.
C6_Witness ==
    \E k, m \in DOMAIN outcomes :
        /\ outcomes[k].evaluatedAt # Null
        /\ outcomes[m].evaluatedAt = Null
        /\ decisions[outcomes[m].decisionId].status = "done"
        /\ now < decisions[outcomes[m].decisionId].completedAt[1] + outcomes[m].windowDays

OutcomesOf(d) == {k \in DOMAIN outcomes : outcomes[k].decisionId = d}

----------------------------------------------------------------------------
(* Properties of costs (SpecCogs) *)

\* manual > csv > shopify
Precedence(source) ==
    CASE source = "manual" -> 3 [] source = "csv" -> 2 [] source = "shopify" -> 1

\* C8: the stored cost and source of a variant are those of the
\* highest-precedence source that has supplied a cost (manual > csv > shopify):
\* a write from a lower-precedence source never replaces a stored value of a
\* higher-precedence source.
C8_LowerSourceNeverReplaces ==
    [][ \A variantId \in Variants :
          (cogs[variantId] # Null /\ cogs'[variantId] # cogs[variantId]) =>
              Precedence(cogs'[variantId][1].source)
                  >= Precedence(cogs[variantId][1].source) ]_vars

----------------------------------------------------------------------------
(* Properties of the cost-dependent rules (SpecRules) *)

\* C9: a variant with no cost entry in the cost lookup is never the variant
\* selected by detectBestSellerLoss or detectDiscountRefundHit.
C9_UnknownCostNeverSelected ==
    \A rule \in {"best_seller_loss", "discount_refund_hit"} :
        (detected[rule] # Null /\ detected[rule][1] # Null) =>
            getVariantCOGS(cogs, detected[rule][1][1].variantId) # Null

----------------------------------------------------------------------------
(* Properties of persistence, failure and overlap of runs *)

\* The rows a plan adds to the Decision table.
PlanRows(plan) == SubSeq(plan.decisions, Len(decisions) + 1, Len(plan.decisions))

\* C11: a run with at least 30 orders creates exactly one Decision record per
\* candidate, each with the run's id; a record is active if and only if its
\* candidate is in the final active set, and every other record is done with
\* completedAt set.
C11_RecordPerCandidate ==
    \A results \in AllResults :
       \A order \in RunOrders(results) :
          LET plan == RunPlan(MIN_ORDERS_FOR_DECISIONS, results, order)
              candidates == NonNull(results)
              rows == PlanRows(plan)
          IN  /\ plan.created = Len(candidates)
              /\ Len(rows) = Len(candidates)
              /\ \A c \in DOMAIN candidates :
                    Cardinality({j \in DOMAIN rows :
                                    /\ rows[j].type = candidates[c].type
                                    /\ rows[j].impact = candidates[c].impact}) = 1
              /\ \A j \in DOMAIN rows :
                    /\ rows[j].runId = Len(runs) + 1
                    /\ rows[j].status = "active" <=>
                          \E k \in DOMAIN plan.returned :
                             plan.returned[k].decisionKey = rows[j].decisionKey
                    /\ rows[j].status # "active" =>
                          rows[j].status = "done" /\ rows[j].completedAt # Null

\* C12: when a storage operation fails part-way through generateDecisions or
\* evaluateDecisionOutcomes, the store equals its state before the call: none
\* of the invocation's writes remain.
C12_FailureLeavesStoreAsBefore ==
    [][\A p \in Requests :
          (requests[p].at # "failed" /\ requests'[p].at = "failed")
              => Store = requests[p].before]_vars

\* C13: two refresh requests for one shop never leave the decisions of more
\* than one run active.
C13_OneRunActive ==
    \A i \in ActiveIds, j \in ActiveIds : decisions[i].runId = decisions[j].runId

----------------------------------------------------------------------------
(* Properties of the profit calculations (SpecProfit) *)

\* The cost of the line items whose variant has a known cost.
KnownCost(order) ==
    LET known == {i \in DOMAIN order.lineItems :
                     /\ order.lineItems[i].variantId # ""
                     /\ cogs[order.lineItems[i].variantId] # Null}
    IN  SumSeq([i \in DOMAIN order.lineItems |->
                  IF i \in known
                  THEN cogs[order.lineItems[i].variantId][1].costGbp
                       * order.lineItems[i].quantity
                  ELSE 0])

RefundTotals(order) == SumSeq([k \in DOMAIN order.refunds |-> order.refunds[k].totalRefunded])

----------------------------------------------------------------------------
(* Properties of the merchant's actions and of refreshes that follow them *)

\* C15: markDecisionDone(d) on an existing decision sets its status to done
\* with completedAt set, and leaves exactly one DecisionOutcome for d, whose
\* baselineMetrics equal the outcomeBaseline persisted with the decision and
\* whose evaluatedAt is null; on an unknown id it fails with 'Decision not
\* found' and changes nothing.
C15_MarkDoneEffects ==
    [][ \A d \in 1..(Len(decisions) + 1) :
           markDecisionDone(d) =>
              IF d \in DOMAIN decisions
              THEN /\ markDecisionDoneError(d) = ""
                   /\ decisions'[d].status = "done"
                   /\ decisions'[d].completedAt # Null
                   /\ Cardinality({k \in DOMAIN outcomes' : outcomes'[k].decisionId = d}) = 1
                   /\ \A k \in DOMAIN outcomes' :
                         outcomes'[k].decisionId = d =>
                            /\ outcomes'[k].baselineMetrics = decisions[d].outcomeBaseline
                            /\ outcomes'[k].evaluatedAt = Null
              ELSE /\ markDecisionDoneError(d) = "Decision not found"
                   /\ UNCHANGED <<shop, runs, decisions, outcomes>> ]_vars

\* A decision has just been marked done, some time after installation: its
\* outcome is pending, with the decision's own non-zero baseline.
C15_Witness ==
    \E d \in DOMAIN decisions, k \in DOMAIN outcomes :
       /\ decisions[d].status = "done"
       /\ decisions[d].completedAt = Some(now)
       /\ now > 0
       /\ outcomes[k].decisionId = d
       /\ outcomes[k].evaluatedAt = Null
       /\ outcomes[k].baselineMetrics = decisions[d].outcomeBaseline
       /\ outcomes[k].baselineMetrics # ZeroMetrics

\* C16: a run of generateDecisions changes the status only of decisions that
\* were active, to done; it never changes the status, completedAt or ignoredAt
\* of a decision that is already done or ignored; resurfacing sets only
\* resurfacedAt of the ignored record, whose status stays ignored.
C16_DoneAndIgnoredPersist ==
    [][ RunStep =>
          \A i \in DOMAIN decisions :
             /\ decisions'[i].status # decisions[i].status =>
                    decisions[i].status = "active" /\ decisions'[i].status = "done"
             /\ decisions[i].status \in {"done", "ignored"} =>
                    /\ decisions'[i].status = decisions[i].status
                    /\ decisions'[i].completedAt = decisions[i].completedAt
                    /\ decisions'[i].ignoredAt = decisions[i].ignoredAt
             /\ decisions[i].status = "ignored" =>
                    decisions'[i] =
                       [decisions[i] EXCEPT !.resurfacedAt = decisions'[i].resurfacedAt] ]_vars

\* A later refresh resurfaced a decision ignored earlier and left a decision
\* the merchant had marked done as it was.
C16_Witness ==
    \E i, j \in DOMAIN decisions :
       /\ now > 0
       /\ decisions[i].status = "ignored"
       /\ decisions[i].ignoredAt = Some(0)
       /\ decisions[i].resurfacedAt = Some(now)
       /\ decisions[j].status = "done"
       /\ decisions[j].completedAt = Some(0)
       /\ decisions[j].runId < Len(runs)
       /\ \E k \in DOMAIN outcomes : outcomes[k].decisionId = j

----------------------------------------------------------------------------
(* Properties of the classification functions (SpecClassify) *)

\* The call that was made, if it was of fn.
Called(fn) == calls.fn = fn /\ calls.result # Null

\* C18: calibrateConfidence returns the base confidence, with no successRate
\* or total, when the history is absent or has fewer than 5 outcomes; with 5
\* or more, medium becomes high at a success rate >= 0.7, low at <= 0.3 and
\* stays medium otherwise; low becomes medium at >= 0.7 and stays low
\* otherwise; high stays high.
C18_CalibrationTable ==
    Called("calibrateConfidence") =>
        LET baseConfidence == calls.args[1]
            history == calls.args[2]
            result == calls.result[1]
        IN  IF history = Null \/ history[1].total < 5
            THEN result = [confidence |-> baseConfidence, successRate |-> Null, total |-> Null]
            ELSE LET atLeast70 == 10 * history[1].improved >= 7 * history[1].total
                     atMost30 == 10 * history[1].improved <= 3 * history[1].total
                 IN  /\ baseConfidence = "medium" /\ atLeast70 => result.confidence = "high"
                     /\ baseConfidence = "medium" /\ atMost30 => result.confidence = "low"
                     /\ baseConfidence = "medium" /\ ~atLeast70 /\ ~atMost30
                            => result.confidence = "medium"
                     /\ baseConfidence = "low" /\ atLeast70 => result.confidence = "medium"
                     /\ baseConfidence = "low" /\ ~atLeast70 => result.confidence = "low"
                     /\ baseConfidence = "high" => result.confidence = "high"

\* High confidence met a history of five outcomes, none improved, and stayed high.
C18_Witness ==
    /\ Called("calibrateConfidence")
    /\ calls.args[1] = "high"
    /\ calls.args[2] = Some([total |-> 5, improved |-> 0])
    /\ calls.result[1].confidence = "high"

\* The flags of the three deltas, from the two sets of metrics.
ImprovedFlags(baseline, post) ==
    {flag \in {"profit", "refund", "shipping"} :
        \/ flag = "profit" /\ post.netProfitPerOrder - baseline.netProfitPerOrder >= 50
        \/ flag = "refund" /\ baseline.refundRate - post.refundRate >= 200
        \/ flag = "shipping" /\ baseline.shippingLossPerOrder - post.shippingLossPerOrder >= 50}

WorsenedFlags(baseline, post) ==
    {flag \in {"profit", "refund", "shipping"} :
        \/ flag = "profit" /\ post.netProfitPerOrder - baseline.netProfitPerOrder <= -50
        \/ flag = "refund" /\ post.refundRate - baseline.refundRate >= 200
        \/ flag = "shipping" /\ post.shippingLossPerOrder - baseline.shippingLossPerOrder >= 50}

\* C20: evaluateOutcomeStatus returns improved iff at least two of the three
\* deltas are flagged improved (profit per order up by 0.5, refund rate down
\* by 2 points, shipping loss per order down by 0.5), worsened iff at least two
\* are flagged worsened, no_change otherwise; the two conditions never both
\* hold.
C20_TwoOfThreeFlags ==
    Called("evaluateOutcomeStatus") =>
        LET improved == Cardinality(ImprovedFlags(calls.args[1], calls.args[2])) >= 2
            worsened == Cardinality(WorsenedFlags(calls.args[1], calls.args[2])) >= 2
            status == calls.result[1]
        IN  /\ status = "improved" <=> improved
            /\ status = "worsened" <=> worsened
            /\ status = "no_change" <=> ~improved /\ ~worsened
            /\ ~(improved /\ worsened)

\* Two deltas exactly on their worsening thresholds outvoted one exactly on
\* its improvement threshold.
C20_Witness ==
    /\ Called("evaluateOutcomeStatus")
    /\ calls.result[1] = "worsened"
    /\ calls.args[2].netProfitPerOrder - calls.args[1].netProfitPerOrder = 50
    /\ calls.args[2].refundRate - calls.args[1].refundRate = 200
    /\ calls.args[2].shippingLossPerOrder - calls.args[1].shippingLossPerOrder = 50

----------------------------------------------------------------------------
(* Properties of the advisory context and of the confidence history *)

\* What a run leaves and returns, the context fields of the rows aside.
WithoutContext(plan) ==
    [plan EXCEPT !.decisions =
        [i \in DOMAIN plan.decisions |->
            [plan.decisions[i] EXCEPT !.seasonalContext = Null,
                                      !.salesPaceContext = Null]]]

\* C17: two runs whose inputs differ only in the seasonal and pace context
\* produce the same candidates, impacts, confidences, active set and persisted
\* statuses.
C17_ContextNeverGates ==
    \A orderCount \in OrderCounts, results \in AllResults :
       \A order \in RunOrders(results) :
          \A one \in SeasonalContexts, other \in SeasonalContexts :
             WithoutContext(RunPlan(orderCount, AttachContext(results, one), order))
             = WithoutContext(RunPlan(orderCount, AttachContext(results, other), order))

\* The same finding was persisted by two runs, first in a week worse than
\* usual and then with no seasonal message, and was active both times.
C17_Witness ==
    \E i, j \in DOMAIN decisions :
       /\ decisions[i].runId < decisions[j].runId
       /\ decisions[i].decisionKey = decisions[j].decisionKey
       /\ decisions[i].impact = decisions[j].impact
       /\ decisions[i].seasonalContext = Some("worse")
       /\ decisions[j].seasonalContext = Null
       /\ decisions[i].status = "done"
       /\ decisions[i].completedAt # Null
       /\ decisions[j].status = "active"

\* The evaluated outcomes of the past decisions of a type whose confidence was
\* `confidence` before calibration.
BaseBucket(type, confidence) ==
    {k \in DOMAIN outcomes :
        /\ outcomes[k].outcomeStatus # Null
        /\ decisions[outcomes[k].decisionId].type = type
        /\ decisions[outcomes[k].decisionId].baseConfidence = confidence}

\* C19: the history used to calibrate a candidate of a type and a base
\* confidence counts exactly the evaluated outcomes of the past decisions of
\* that type whose base confidence was the same, promoted or demoted ones
\* included.
C19_HistoryByBaseConfidence ==
    \A i \in DOMAIN RuleTypes, confidence \in ConfidenceLevels :
       LET history == HistoryOf(decisions, outcomes, RuleTypes[i], confidence)
       IN  (IF history = Null THEN 0 ELSE history[1].total)
           = Cardinality(BaseBucket(RuleTypes[i], confidence))

----------------------------------------------------------------------------
(* Further properties of outcome tracking (SpecOutcomes) *)

\* C21: when the window of an outcome has elapsed and the post-window metrics
\* are missing or cover fewer than 10 orders, evaluateDecisionOutcomes sets
\* outcomeStatus no_change, whatever the baseline, and sets evaluatedAt; later
\* evaluation passes leave the outcome as it is.
C21_SmallSampleIsNoChange ==
    [][ EvaluateStep =>
          \A k \in DOMAIN outcomes :
             /\ (/\ outcomes[k].evaluatedAt = Null
                 /\ outcomes'[k].evaluatedAt # Null
                 /\ \/ outcomes'[k].postMetrics = Null
                    \/ outcomes'[k].postMetrics[1].ordersCount < 10)
                   => /\ outcomes'[k].outcomeStatus = Some("no_change")
                      /\ outcomes'[k].evaluatedAt = Some(now)
             /\ outcomes[k].evaluatedAt # Null => outcomes'[k] = outcomes[k] ]_vars

\* An outcome was closed as no_change on nine orders whose figures, against
\* its baseline, would have counted as an improvement.
C21_Witness ==
    \E k \in DOMAIN outcomes :
       /\ outcomes[k].evaluatedAt # Null
       /\ outcomes[k].postMetrics # Null
       /\ outcomes[k].postMetrics[1].ordersCount = 9
       /\ outcomes[k].outcomeStatus = Some("no_change")
       /\ evaluateOutcomeStatus(outcomes[k].baselineMetrics, outcomes[k].postMetrics[1])
             = "improved"

----------------------------------------------------------------------------
(* Further properties of the detection rules (SpecRules) *)

\* The top sellers a best-seller-loss candidate may be drawn from: losing or
\* nearly so, with at least 10 units sold.
LosingBestSellers ==
    LET topSellers ==
            getTopSellingVariants(calculateVariantProfits(cogs, orders), TopSellersLimit)
    IN  {topSellers[i] : i \in {j \in DOMAIN topSellers :
                                   /\ \/ topSellers[j].netProfit < 0
                                      \/ MarginPercentBelow(topSellers[j], 5)
                                   /\ topSellers[j].unitsSold >= MIN_BEST_SELLER_UNITS}}

\* C22: detectBestSellerLoss returns the variant that maximizes unitsSold x
\* |netProfit| among the top sellers that lose money or have a margin below 5%
\* and sold at least 10 units; it returns none only when there is no such
\* variant; confidence is high from 20 units and medium from 10 to 19.
C22_WorstEligibleBestSeller ==
    detected.best_seller_loss # Null =>
        LET result == detected.best_seller_loss[1]
        IN  /\ result = Null <=> LosingBestSellers = {}
            /\ result # Null =>
                  /\ \E v \in LosingBestSellers :
                        /\ v.variantId = result[1].variantId
                        /\ \A w \in LosingBestSellers :
                              v.unitsSold * Abs(v.netProfit) >= w.unitsSold * Abs(w.netProfit)
                  /\ result[1].confidence =
                        IF result[1].unitsSold >= 20 THEN "high" ELSE "medium"

ItemsOfVariant(variantId) ==
    {<<i, j>> \in (DOMAIN orders) \X (1..MaxItems) :
        /\ j \in DOMAIN orders[i].lineItems
        /\ orders[i].lineItems[j].variantId = variantId}

\* The sum over a set of line item positions of the discounted amount
\* (discounted unit price x quantity) or of the discount amount.
RECURSIVE SumOverItems(_, _)
SumOverItems(positions, field) ==
    IF positions = {} THEN 0
    ELSE LET p == CHOOSE q \in positions : TRUE
             item == orders[p[1]].lineItems[p[2]]
             amount == IF field = "discounted" THEN item.discountedPrice * item.quantity
                       ELSE (item.price - item.discountedPrice) * item.quantity
         IN  amount + SumOverItems(positions \ {p}, field)

\* C24: the revenue calculateVariantProfits returns for a variant is the sum
\* over the variant's line items of discounted unit price x quantity, and
\* its discount amount is the sum of (list price - discounted price) x quantity.
C24_RevenueIsDiscountedPrice ==
    profits.variants # Null =>
        \A k \in DOMAIN profits.variants[1] :
           LET metrics == profits.variants[1][k]
               mine == ItemsOfVariant(metrics.variantId)
           IN  /\ metrics.revenue = SumOverItems(mine, "discounted")
               /\ metrics.totalDiscounts = SumOverItems(mine, "discount")

\* The discount amounts alone are as stated.
C24_DiscountAmounts ==
    profits.variants # Null =>
        \A k \in DOMAIN profits.variants[1] :
           LET metrics == profits.variants[1][k]
           IN  metrics.totalDiscounts = SumOverItems(ItemsOfVariant(metrics.variantId), "discount")

----------------------------------------------------------------------------
(* Properties of the gathering of the rules (SpecGather) *)

RuleIndex(type) == CHOOSE i \in DOMAIN RuleTypes : RuleTypes[i] = type

\* By descending impact, equal impacts in the order of RuleTypes.
InFixedOrder(candidates) ==
    \A i, j \in DOMAIN candidates :
       i < j => \/ candidates[i].impact > candidates[j].impact
                \/ /\ candidates[i].impact = candidates[j].impact
                   /\ RuleIndex(candidates[i].type) < RuleIndex(candidates[j].type)

\* A step that creates a Decision record or marks a record resurfaced.
PersistStep ==
    \/ Len(decisions') > Len(decisions)
    \/ \E i \in DOMAIN decisions : decisions'[i].resurfacedAt # decisions[i].resurfacedAt

\* C25: a Decision record is created, or an ignored record marked resurfaced,
\* only by a request all three of whose rules have settled and whose combined
\* results are sorted by descending impact with equal impacts in the order
\* best_seller_loss, free_shipping_trap, discount_refund_hit; and whatever the
\* order in which the rules settled, the combined results hold each rule's
\* output at the rule's position and the records of a run are persisted in
\* that sorted order.
C25_PersistAfterGather ==
    /\ [][ PersistStep =>
             \E p \in Requests :
                /\ requests[p].at \in {"resurface", "create"}
                /\ Len(requests[p].settled) = Len(RuleTypes)
                /\ InFixedOrder(SortedOf(requests[p]))
                /\ Len(decisions') > Len(decisions) =>
                      /\ Len(decisions') = Len(decisions) + 1
                      /\ decisions'[Len(decisions')].type
                            = SortedOf(requests[p])[requests[p].created + 1].type
                      /\ decisions'[Len(decisions')].impact
                            = SortedOf(requests[p])[requests[p].created + 1].impact ]_vars
    /\ [](\A p \in Requests :
             requests[p].at \in {"query", "resurface", "create"} =>
                \A i \in DOMAIN requests[p].results :
                   requests[p].results[i] # Null =>
                      requests[p].results[i][1].type = RuleTypes[i])
    /\ [](\A i, j \in DOMAIN decisions :
             (i < j /\ decisions[i].runId = decisions[j].runId) =>
                InFixedOrder(<<decisions[i], decisions[j]>>))

\* A run whose second rule settled first has persisted two records of equal
\* impact.
C25_Witness ==
    \E p \in Requests :
       /\ requests[p].at = "generated"
       /\ Len(requests[p].settled) = Len(RuleTypes)
       /\ requests[p].settled[1] = 2
       /\ requests[p].created = 2
       /\ decisions[Len(decisions)].runId = requests[p].runId
       /\ decisions[Len(decisions) - 1].runId = requests[p].runId
       /\ decisions[Len(decisions)].impact = decisions[Len(decisions) - 1].impact
       /\ decisions[Len(decisions) - 1].type = RuleTypes[1]
       /\ decisions[Len(decisions)].type = RuleTypes[2]

----------------------------------------------------------------------------
(* Properties of the data cache (SpecCache) *)

\* A step that is a call of fn.
CallStep(fn) == calls' # calls /\ calls'.fn = fn

\* C26: getCachedData returns an entry's data exactly when the entry exists
\* and its expiresAt is not earlier than the current time, and null
\* otherwise; a read of an expired entry deletes it and no other read changes
\* the cache; setCachedData(key, data, h) leaves under key the data, expiring h
\* hours later, so that reads return it through the h-th hour; an entry changes
\* only when it is overwritten, cleared or read after it expired; getOrderData
\* with forceRefresh = true returns the fetched orders whatever the cache
\* holds and leaves them cached for 24 hours.
C26_CacheReads ==
    [][ /\ CallStep("getCachedData") =>
             LET entry == cache[calls'.args[1]]
                 returned == calls'.result[1]
             IN  /\ returned # Null <=> (entry # Null /\ entry[1].expiresAt >= hour)
                 /\ returned # Null => returned[1] = entry[1].dataJson /\ cache' = cache
                 /\ (entry # Null /\ entry[1].expiresAt < hour) =>
                        cache' = [cache EXCEPT ![calls'.args[1]] = Null]
                 /\ entry = Null => cache' = cache
        /\ CallStep("setCachedData") =>
             cache' = [cache EXCEPT ![calls'.args[1]] =
                          Some([dataJson |-> calls'.args[2],
                                expiresAt |-> hour + calls'.args[3]])]
        /\ (CallStep("getOrderData") /\ calls'.args[1]) =>
             /\ calls'.result = Some(calls'.args[2])
             /\ cache' = [cache EXCEPT !["orders_last_90_days"] =
                             Some([dataJson |-> calls'.args[2], expiresAt |-> hour + 24])]
        /\ \A cacheKey \in CacheKeys :
              cache'[cacheKey] # cache[cacheKey] =>
                 \/ calls'.fn \in {"setCachedData", "clearShopCache", "getOrderData"}
                 \/ /\ calls'.fn \in {"getCachedData", "clearExpiredCache"}
                    /\ cache[cacheKey][1].expiresAt < hour
                    /\ cache'[cacheKey] = Null ]_vars

\* The orders cached for 24 hours at hour 2 are read in hour 26, the last
\* hour of the entry.
C26_Witness ==
    /\ Called("getCachedData")
    /\ calls.args[1] = "orders_last_90_days"
    /\ calls.result[1] # Null
    /\ cache["orders_last_90_days"] # Null
    /\ cache["orders_last_90_days"][1].expiresAt = hour
    /\ hour = 26

\* A forced refresh has replaced fresh cached orders by the newly fetched.
C26_ForcedWitness ==
    /\ Called("getOrderData")
    /\ calls.args[1]
    /\ hour = 2
    /\ cache["orders_last_90_days"] = Some([dataJson |-> calls.args[2], expiresAt |-> 26])

----------------------------------------------------------------------------
(* Properties of runs made one at a time (Spec) *)

\* C27: with runs made one at a time, after a run every active decision of
\* the shop carries the runId of the most recent run, and no two active
\* decisions have the same decision key.
C27_ActiveFromLatestRun ==
    runs # <<>> =>
        /\ \A i \in ActiveIds : decisions[i].runId = Len(runs)
        /\ \A i, j \in ActiveIds :
              decisions[i].decisionKey = decisions[j].decisionKey => i = j

\* After the second run two decisions are active, both of that run, and a
\* decision of the first run with the key of one of them is done.
C27_Witness ==
    /\ Len(runs) = 2
    /\ Cardinality(ActiveIds) = 2
    /\ \E i \in ActiveIds, k \in DOMAIN decisions :
          /\ decisions[k].runId = 1
          /\ decisions[k].status = "done"
          /\ decisions[k].decisionKey = decisions[i].decisionKey

\* C28: a run with fewer than 30 orders sets the shop's lastOrderCount and
\* lastAnalyzedAt, records a DecisionRun, creates no decision and moves every
\* active decision to done, leaving the others as they were, so that no
\* decision of the shop is active afterwards.
C28_SmallRunWrites ==
    [][ (RunStep /\ runs'[Len(runs')].orderCount < 30) =>
            /\ shop'.lastOrderCount = Some(runs'[Len(runs')].orderCount)
            /\ shop'.lastAnalyzedAt = Some(now)
            /\ Len(runs') = Len(runs) + 1
            /\ DOMAIN decisions' = DOMAIN decisions
            /\ \A i \in DOMAIN decisions :
                  IF decisions[i].status = "active"
                  THEN /\ decisions'[i].status = "done"
                       /\ decisions'[i].completedAt = Some(now)
                  ELSE decisions'[i] = decisions[i]
            /\ \A i \in DOMAIN decisions' : decisions'[i].status # "active" ]_vars

\* A run with 29 orders has followed a run that left decisions active: the
\* shop's statistics are those of the small run and the decisions of the
\* first run are done without a click of the merchant.
C28_Witness ==
    /\ Len(runs) = 2
    /\ runs[2].orderCount = 29
    /\ runs[1].orderCount = 30
    /\ shop.lastOrderCount = Some(29)
    /\ clicks = 0
    /\ decisions # <<>>
    /\ \A i \in DOMAIN decisions : decisions[i].status = "done"

----------------------------------------------------------------------------
(* Properties of the evaluation in time (SpecOutcomesFair) *)

\* Decision d has status done, completed at time c.
DoneAt(d, c) ==
    /\ d \in DOMAIN decisions
    /\ decisions[d].status = "done"
    /\ decisions[d].completedAt = Some(c)

\* The outcome of decision d has evaluatedAt set and a classification.
EvaluatedOutcome(d) ==
    \E k \in OutcomesOf(d) :
       /\ outcomes[k].evaluatedAt # Null
       /\ outcomes[k].outcomeStatus \in {Some("improved"), Some("no_change"), Some("worsened")}

\* C29: a decision the merchant marked done, whose window has elapsed, is
\* evaluated by an invocation of evaluateDecisionOutcomes unless it stops
\* being done as of that completion: its outcome gets evaluatedAt and a
\* classification among improved, no_change and worsened; and no step
\* evaluates the outcome of a decision that is ignored before and after it.
C29_DoneIsEvaluated ==
    /\ \A d \in 1..TrackDecisions, c \in {0, DEFAULT_OUTCOME_WINDOW_DAYS} :
          (/\ DoneAt(d, c)
           /\ OutcomesOf(d) # {}
           /\ now >= c + DEFAULT_OUTCOME_WINDOW_DAYS)
             ~> (EvaluatedOutcome(d) \/ ~DoneAt(d, c))
    /\ [][ \A k \in DOMAIN outcomes :
              (/\ decisions[outcomes[k].decisionId].status = "ignored"
               /\ decisions'[outcomes[k].decisionId].status = "ignored")
                 => outcomes'[k] = outcomes[k] ]_vars

\* A decision marked done on day 0 has been evaluated on day 30.
C29_Witness ==
    \E d \in DOMAIN decisions :
       /\ DoneAt(d, 0)
       /\ EvaluatedOutcome(d)
       /\ \A k \in OutcomesOf(d) :
             outcomes[k].evaluatedAt = Some(DEFAULT_OUTCOME_WINDOW_DAYS)

\* A decision marked done and then ignored on day 0 is unevaluated on day 30,
\* after another decision's outcome has been evaluated.
C29_IgnoredWitness ==
    \E d \in DOMAIN decisions :
       /\ decisions[d].status = "ignored"
       /\ decisions[d].completedAt = Some(0)
       /\ OutcomesOf(d) # {}
       /\ \A k \in OutcomesOf(d) : outcomes[k].evaluatedAt = Null
       /\ now = DEFAULT_OUTCOME_WINDOW_DAYS

----------------------------------------------------------------------------
(* The force-include step (Spec) *)

\* The candidates of a run that clear the threshold, by descending impact:
\* the active set of a run that has no resurfacing step.
PassingCandidates(results) ==
    SelectSeq(SortByImpactDesc(NonNull(results)),
              LAMBDA candidate : candidate.impact >= Max(shop.minImpactThreshold, 50))

\* C30: the force-include of the resurfacing candidate never adds a member to
\* the active set and never displaces one: the decisions a run returns are the
\* candidates that clear the threshold, each once, and the rows it persists
\* as active are exactly those of the candidates that clear the threshold.
C30_ForceIncludeChangesNothing ==
    [][ /\ \A results \in AllResults :
             \A order \in RunOrders(results) :
                LET returned == RunPlan(MIN_ORDERS_FOR_DECISIONS, results, order).returned
                    passing == PassingCandidates(results)
                IN  /\ Len(returned) = Len(passing)
                    /\ \A j \in DOMAIN returned : returned[j].type = passing[j].type
        /\ (RunStep /\ runs'[Len(runs')].orderCount >= 30) =>
             \A j \in NewIds :
                decisions'[j].status = "active"
                   <=> decisions'[j].impact >= Max(shop.minImpactThreshold, 50) ]_vars

============================================================================
